---- MODULE Spec2Model ----
(***************************************************************************)
(* Khamseena front end: scanner (scanner.py), recursive-descent parser     *)
(* (khamseena_parser.py) and semantic analyzer (semantic_analyzer.py).     *)
(* Each component is modelled as its own state machine over shared         *)
(* variables; a component's specification leaves the other components'     *)
(* variables at their constructed values.                                  *)
(***************************************************************************)
EXTENDS Integers, Sequences, FiniteSets, TLC

VARIABLES
    \* ---- Scanner object (scanner.py) ----
    source, position, line, column, tokens, raised, spc,
    \* ---- Parser object (khamseena_parser.py) ----
    ptokens, current, statements, reported, ppc,
    \* ---- SemanticAnalyzer object (semantic_analyzer.py) ----
    ast, apc, aidx, runs, scopes, current_scope, errors, warnings,
    scope_counter, success, fatal

scanVars == <<source, position, line, column, tokens, raised, spc>>
parseVars == <<ptokens, current, statements, reported, ppc>>
semVars == <<ast, apc, aidx, runs, scopes, current_scope, errors, warnings,
             scope_counter, success, fatal>>
vars == <<scanVars, parseVars, semVars>>

(***************************************************************************)
(* Bounds                                                                  *)
(***************************************************************************)
MaxStmts == 2
MaxRuns == 2
MaxTokens == 4
MaxBody == 2
MaxLen == 4

SeqsUpTo(S, n) == UNION {[1..k -> S] : k \in 0..n}

(***************************************************************************)
(* AST nodes (ast_nodes.py).  A node is a record with a "kind" field;      *)
(* Python's None is the node NoneNode.                                     *)
(***************************************************************************)
NoneNode == [kind |-> "None"]
Literal(value, literal_type) == [kind |-> "Literal", value |-> value, type |-> literal_type]
Variable(name) == [kind |-> "Variable", name |-> name]
BinaryOp(left, operator, right) ==
    [kind |-> "BinaryOp", left |-> left, operator |-> operator, right |-> right]
UnaryOp(operator, operand) == [kind |-> "UnaryOp", operator |-> operator, operand |-> operand]
FunctionCall(name, arguments) == [kind |-> "FunctionCall", name |-> name, arguments |-> arguments]
Parameter(param_type, name) == [kind |-> "Parameter", param_type |-> param_type, name |-> name]
VarDeclaration(var_type, name, initializer) ==
    [kind |-> "VarDeclaration", var_type |-> var_type, name |-> name, initializer |-> initializer]
Assignment(name, value) == [kind |-> "Assignment", name |-> name, value |-> value]
PrintStatement(expression) == [kind |-> "PrintStatement", expression |-> expression]
InputStatement(expression) == [kind |-> "InputStatement", expression |-> expression]
ReturnStatement(value) == [kind |-> "ReturnStatement", value |-> value]
ExpressionStatement(expression) == [kind |-> "ExpressionStatement", expression |-> expression]
IfStatement(condition, then_stmt, else_stmt) ==
    [kind |-> "IfStatement", condition |-> condition, then_stmt |-> then_stmt, else_stmt |-> else_stmt]
WhileStatement(condition, body) == [kind |-> "WhileStatement", condition |-> condition, body |-> body]
Block(stmts) == [kind |-> "Block", statements |-> stmts]
FunctionDef(name, parameters, body) ==
    [kind |-> "FunctionDef", name |-> name, parameters |-> parameters, body |-> body]
CommentStatement(text) == [kind |-> "CommentStatement", text |-> text]

(***************************************************************************)
(* Tokens (khamseena_token.py).  A token kind is the string the TokenType  *)
(* constant holds, so two constants holding the same string are the same   *)
(* kind.                                                                   *)
(***************************************************************************)
BREW == "MAIN"
RECIPE == "FUNCTION"
COUNT == "INT"
MEASURE == "FLOAT"
NOTE == "COMMENT"
FLAVOR == "BOOLEAN"
SWEET == "TRUE"
SOUR == "FALSE"
SERVE == "PRINT"
POUR == "INPUT"
TASTE == "IF"
RETASTE == "ELSE"
STIR == "WHILE"
MIX == "FOR"
STOP == "BREAK"
SKIP == "CONTINUE"
DELIVER == "RETURN"
FETCH == "INCLUDE"
PLUS == "PLUS"
MINUS == "MINUS"
MULTIPLY == "MULTIPLY"
DIVIDE == "DIVIDE"
MODULO == "MODULO"
ASSIGN == "ASSIGN"
EQUAL == "EQUAL"
NOT_EQUAL == "NOT_EQUAL"
GREATER == "GREATER"
LESS == "LESS"
GREATER_EQUAL == "GREATER_EQUAL"
LESS_EQUAL == "LESS_EQUAL"
AND == "AND"
OR == "OR"
NOT == "NOT"
LPAREN == "LPAREN"
RPAREN == "RPAREN"
LBRACE == "LBRACE"
RBRACE == "RBRACE"
SEMICOLON == "SEMICOLON"
COMMA == "COMMA"
INTEGER == "INTEGER"
FLOAT == "FLOAT"
STRING_ == "STRING"
IDENTIFIER == "IDENTIFIER"
EOF == "EOF"
COMMENT == "COMMENT"

\* Token.__init__
Token(token_type, value, ln, col) ==
    [type |-> token_type, value |-> value, line |-> ln, column |-> col]

(***************************************************************************)
(* Scanner (scanner.py).  A source is a sequence of characters and a       *)
(* token's text is the sequence of its characters.  A scanner position is  *)
(* the record of self.position, self.line and self.column; current_char is *)
(* read from the source at the position.                                   *)
(***************************************************************************)
\* Python's None as current_char: the position is past the end
NoChar == "None"

Space == {" ", "\t", "\n", "\r"}
Digits == {"0", "1", "2", "3", "4", "5", "6", "7", "8", "9"}
Letters == {"a", "b", "c", "d", "e", "f", "g", "h", "i", "j", "k", "l", "m", "n", "o", "p", "q", "r", "s", "t", "u", "v", "w", "x", "y", "z",
            "A", "B", "C", "D", "E", "F", "G", "H", "I", "J", "K", "L", "M", "N", "O", "P", "Q", "R", "S", "T", "U", "V", "W", "X", "Y", "Z"}

KEYWORDS ==
    <<"b", "r", "e", "w">> :> BREW @@
    <<"r", "e", "c", "i", "p", "e">> :> RECIPE @@
    <<"c", "o", "u", "n", "t">> :> COUNT @@
    <<"m", "e", "a", "s", "u", "r", "e">> :> MEASURE @@
    <<"n", "o", "t", "e">> :> NOTE @@
    <<"f", "l", "a", "v", "o", "r">> :> FLAVOR @@
    <<"s", "w", "e", "e", "t">> :> SWEET @@
    <<"s", "o", "u", "r">> :> SOUR @@
    <<"s", "e", "r", "v", "e">> :> SERVE @@
    <<"p", "o", "u", "r">> :> POUR @@
    <<"t", "a", "s", "t", "e">> :> TASTE @@
    <<"r", "e", "t", "a", "s", "t", "e">> :> RETASTE @@
    <<"s", "t", "i", "r">> :> STIR @@
    <<"m", "i", "x">> :> MIX @@
    <<"s", "t", "o", "p">> :> STOP @@
    <<"s", "k", "i", "p">> :> SKIP @@
    <<"d", "e", "l", "i", "v", "e", "r">> :> DELIVER @@
    <<"f", "e", "t", "c", "h">> :> FETCH

Pos(p, ln, col) == [position |-> p, line |-> ln, column |-> col]

current_char(src, p) == IF p.position < Len(src) THEN src[p.position + 1] ELSE NoChar

peek(src, p) == IF p.position + 1 < Len(src) THEN src[p.position + 2] ELSE NoChar

advance_m(src, p) ==
    IF current_char(src, p) = "\n"
    THEN Pos(p.position + 1, p.line + 1, p.column + 1)
    ELSE Pos(p.position + 1, p.line, p.column + 1)

advance(src, p) ==
    IF current_char(src, p) = "\n"
    THEN Pos(p.position + 1, p.line + 1, 1)
    ELSE Pos(p.position + 1, p.line, p.column + 1)

\* Scanner.error: the exception carries the scanner's line and column
LexicalError(message, p) == [message |-> message, line |-> p.line, column |-> p.column]
NoLexicalError == [message |-> "", line |-> 0, column |-> 0]

\* the loops "while current_char is not None and current_char in Class"
RECURSIVE ReadWhile(_, _, _, _)
ReadWhile(src, p, Class, text) ==
    IF current_char(src, p) \in Class
    THEN ReadWhile(src, advance(src, p), Class, Append(text, current_char(src, p)))
    ELSE [p |-> p, text |-> text]

skip_whitespace(src, p) == ReadWhile(src, p, Space, <<>>).p

RECURSIVE CommentLoop(_, _, _)
CommentLoop(src, p, text) ==
    IF current_char(src, p) # NoChar /\ current_char(src, p) # "\n"
    THEN CommentLoop(src, advance(src, p), Append(text, current_char(src, p)))
    ELSE [p |-> p, text |-> text]

skip_comment_m(src, p, toks) ==
    LET r == CommentLoop(src, p, <<>>)
    IN  [p |-> IF current_char(src, r.p) = "\n" THEN advance(src, r.p) ELSE r.p,
         tokens |-> toks]

skip_comment(src, p, toks) ==
    LET r == CommentLoop(src, p, <<>>)
    IN  [p |-> IF current_char(src, r.p) = "\n" THEN advance(src, r.p) ELSE r.p,
         tokens |-> Append(toks, Token(COMMENT, r.text, p.line, p.column))]

read_number(src, p) ==
    LET a == ReadWhile(src, p, Digits, <<>>)
        is_float == current_char(src, a.p) = "." /\ peek(src, a.p) \in Digits
        b == ReadWhile(src, advance(src, a.p), Digits, Append(a.text, "."))
    IN  IF is_float
        THEN [p |-> b.p, token |-> Token(FLOAT, b.text, p.line, p.column)]
        ELSE [p |-> a.p, token |-> Token(INTEGER, a.text, p.line, p.column)]

escape_chars(c) ==
    CASE c = "n" -> "\n"
      [] c = "t" -> "\t"
      [] c = "r" -> "\r"
      [] OTHER -> c

RECURSIVE StringLoop(_, _, _)
StringLoop(src, p, string_value) ==
    LET c == current_char(src, p)
        q == advance(src, p)
    IN  IF c = NoChar \/ c = "\""
        THEN [st |-> "ok", p |-> p, text |-> string_value, err |-> NoLexicalError]
        ELSE IF c = "\n"
        THEN [st |-> "LexicalError", p |-> p, text |-> string_value,
              err |-> LexicalError("Unterminated string literal", p)]
        ELSE IF c = "\\"
        THEN IF current_char(src, q) = NoChar
             THEN [st |-> "LexicalError", p |-> q, text |-> string_value,
                   err |-> LexicalError("Unterminated string literal", q)]
             ELSE StringLoop(src, advance(src, q),
                             Append(string_value, escape_chars(current_char(src, q))))
        ELSE StringLoop(src, q, Append(string_value, c))

read_string(src, p) ==
    LET r == StringLoop(src, advance(src, p), <<>>)
    IN  IF r.st # "ok"
        THEN [st |-> r.st, p |-> r.p, err |-> r.err]
        ELSE IF current_char(src, r.p) # "\""
        THEN [st |-> "LexicalError", p |-> r.p,
              err |-> LexicalError("Unterminated string literal", r.p)]
        ELSE [st |-> "ok", p |-> advance(src, r.p), err |-> NoLexicalError,
              token |-> Token(STRING_, <<"\"">> \o r.text \o <<"\"">>, p.line, p.column)]

read_identifier(src, p) ==
    LET r == ReadWhile(src, p, Letters \cup Digits \cup {"_"}, <<>>)
        token_type == IF r.text \in DOMAIN KEYWORDS THEN KEYWORDS[r.text] ELSE IDENTIFIER
    IN  [p |-> r.p, token |-> Token(token_type, r.text, p.line, p.column)]

TwoCharOperators ==
    <<"=", "=">> :> EQUAL @@ <<"!", "=">> :> NOT_EQUAL @@ <<">", "=">> :> GREATER_EQUAL @@
    <<"<", "=">> :> LESS_EQUAL @@ <<"&", "&">> :> AND @@ <<"|", "|">> :> OR

operators ==
    "+" :> PLUS @@ "-" :> MINUS @@ "*" :> MULTIPLY @@ "/" :> DIVIDE @@ "%" :> MODULO @@
    "=" :> ASSIGN @@ ">" :> GREATER @@ "<" :> LESS @@ "!" :> NOT

\* found is FALSE where read_operator returns None
read_operator(src, p) ==
    LET char == current_char(src, p)
        two == <<char, peek(src, p)>>
    IN  IF two \in DOMAIN TwoCharOperators
        THEN [found |-> TRUE, p |-> advance(src, advance(src, p)),
              token |-> Token(TwoCharOperators[two], two, p.line, p.column)]
        ELSE IF char \in DOMAIN operators
        THEN [found |-> TRUE, p |-> advance(src, p),
              token |-> Token(operators[char], <<char>>, p.line, p.column)]
        ELSE [found |-> FALSE, p |-> p]

delimiters ==
    "(" :> LPAREN @@ ")" :> RPAREN @@ "{" :> LBRACE @@ "}" :> RBRACE @@
    ";" :> SEMICOLON @@ "," :> COMMA

Scanned(p, toks) == [st |-> "ok", p |-> p, tokens |-> toks, err |-> NoLexicalError]

\* one pass of tokenize's while loop, current_char not None
ScanStep(src, p, toks) ==
    LET c == current_char(src, p)
    IN  IF c \in Space THEN Scanned(skip_whitespace(src, p), toks)
        ELSE IF c = "#" THEN Scanned(skip_comment(src, p, toks).p, skip_comment(src, p, toks).tokens)
        ELSE IF c \in Letters \cup {"_"}
        THEN Scanned(read_identifier(src, p).p, Append(toks, read_identifier(src, p).token))
        ELSE IF c \in Digits
        THEN Scanned(read_number(src, p).p, Append(toks, read_number(src, p).token))
        ELSE IF c = "\""
        THEN LET r == read_string(src, p)
             IN  IF r.st = "ok" THEN Scanned(r.p, Append(toks, r.token))
                 ELSE [st |-> r.st, p |-> r.p, tokens |-> toks, err |-> r.err]
        ELSE IF read_operator(src, p).found
        THEN Scanned(read_operator(src, p).p, Append(toks, read_operator(src, p).token))
        ELSE IF c \in DOMAIN delimiters
        THEN Scanned(advance(src, p), Append(toks, Token(delimiters[c], <<c>>, p.line, p.column)))
        ELSE [st |-> "LexicalError", p |-> p, tokens |-> toks,
              err |-> LexicalError("Invalid character '" \o c \o "'", p)]

\* the end-of-file token tokenize appends when current_char is None
EndOfFile_m(p) == Token(EOF, <<>>, p.line, 1)

EndOfFile(p) == Token(EOF, <<>>, p.line, p.column)

RECURSIVE TokenizeFrom(_, _, _)
TokenizeFrom(src, p, toks) ==
    IF current_char(src, p) = NoChar
    THEN Scanned(p, Append(toks, EndOfFile(p)))
    ELSE LET r == ScanStep(src, p, toks)
         IN  IF r.st = "ok" THEN TokenizeFrom(src, r.p, r.tokens) ELSE r

\* Scanner(src).tokenize()
Tokenize(src) == TokenizeFrom(src, Pos(0, 1, 1), <<>>)

(***************************************************************************)
(* Scanner as a state machine: one action per branch of tokenize's loop.   *)
(***************************************************************************)
Here == Pos(position, line, column)

ScannerInit(inputs) ==
    /\ source \in inputs
    /\ position = 0
    /\ line = 1
    /\ column = 1
    /\ tokens = <<>>
    /\ raised = NoLexicalError
    /\ spc = "scan"

\* the scanner after the loop pass with outcome r
Becomes(r) ==
    /\ position' = r.p.position
    /\ line' = r.p.line
    /\ column' = r.p.column
    /\ tokens' = r.tokens
    /\ raised' = r.err
    /\ spc' = IF r.st = "ok" THEN "scan" ELSE r.st

Scan == Becomes(ScanStep(source, Here, tokens)) /\ UNCHANGED <<source, parseVars, semVars>>

Scanning == spc = "scan" /\ current_char(source, Here) # NoChar

SkipWhitespace == Scanning /\ current_char(source, Here) \in Space /\ Scan

SkipComment == Scanning /\ current_char(source, Here) = "#" /\ Scan

ReadIdentifier == Scanning /\ current_char(source, Here) \in Letters \cup {"_"} /\ Scan

ReadNumber == Scanning /\ current_char(source, Here) \in Digits /\ Scan

ReadString == Scanning /\ current_char(source, Here) = "\"" /\ Scan

Other == Scanning /\ current_char(source, Here) \notin Space \cup Letters \cup Digits \cup {"#", "_", "\""}

ReadOperator == Other /\ read_operator(source, Here).found /\ Scan

ReadDelimiter ==
    /\ Other
    /\ ~read_operator(source, Here).found
    /\ current_char(source, Here) \in DOMAIN delimiters
    /\ Scan

InvalidCharacter ==
    /\ Other
    /\ ~read_operator(source, Here).found
    /\ current_char(source, Here) \notin DOMAIN delimiters
    /\ Scan

AppendEOF ==
    /\ spc = "scan"
    /\ current_char(source, Here) = NoChar
    /\ tokens' = Append(tokens, EndOfFile(Here))
    /\ spc' = "done"
    /\ UNCHANGED <<source, position, line, column, raised, parseVars, semVars>>

ScanNext ==
    \/ SkipWhitespace
    \/ SkipComment
    \/ ReadIdentifier
    \/ ReadNumber
    \/ ReadString
    \/ ReadOperator
    \/ ReadDelimiter
    \/ InvalidCharacter
    \/ AppendEOF

(***************************************************************************)
(* Sources handed to the scanner                                           *)
(***************************************************************************)
ShortChars == {"a", "n", "1", ".", " ", "\n", "#", "\"", "\\", "=", ";", "@"}

ShortSources == SeqsUpTo(ShortChars, MaxLen)

SampleSources ==
    {<<"s", "e", "r", "v", "e", " ", "x", ";">>,
     <<"c", "o", "u", "n", "t", " ", "x", " ", "=", " ", "5", ";", " ", "#", " ", "c", "\n", "s", "e", "r", "v", "e", " ", "x", ";">>,
     <<"n", "o", "t", "e", " ", "s", " ", "=", " ", "\"", "a", "\\", "n", "\"", ";">>,
     <<"m", "e", "a", "s", "u", "r", "e", " ", "y", " ", "=", " ", "1", ".", "5", " ", "+", " ", "x", "_", "1", ";">>,
     <<"t", "a", "s", "t", "e", " ", "(", "x", " ", "!", "=", " ", "0", " ", "&", "&", " ", "!", "b", " ", "|", "|", " ", "x", " ", ">", "=", " ", "1", ")", " ", "{", " ", "s", "t", "o", "p", ";", " ", "}">>,
     <<"b", "r", "e", "w", " ", "r", "e", "c", "i", "p", "e", " ", "c", "o", "u", "n", "t", " ", "m", "e", "a", "s", "u", "r", "e", " ", "n", "o", "t", "e", " ", "f", "l", "a", "v", "o", "r", " ", "s", "w", "e", "e", "t", " ", "s", "o", "u", "r", " ", "s", "e", "r", "v", "e", " ", "p", "o", "u", "r", " ", "t", "a", "s", "t", "e", " ", "r", "e", "t", "a", "s", "t", "e", " ", "s", "t", "i", "r", " ", "m", "i", "x", " ", "s", "t", "o", "p", " ", "s", "k", "i", "p", " ", "d", "e", "l", "i", "v", "e", "r", " ", "f", "e", "t", "c", "h">>,
     <<"x", " ", "<", "=", " ", "2", " ", "-", " ", "3", " ", "*", " ", "4", " ", "/", " ", "5", " ", "%", " ", "6", " ", ">", " ", "7", " ", "<", " ", "8", " ", "=", "=", " ", "9", ",", " ", "f", "(", "x", ")">>,
     <<"s", "e", "r", "v", "e", " ", "\"", "u", "n", "t", "e", "r", "m", "i", "n", "a", "t", "e", "d">>,
     <<"s", "e", "r", "v", "e", " ", "\"", "a", "\n", "b", "\"", ";">>,
     <<"x", " ", "=", " ", "3", ".", ";">>,
     <<"x", " ", "&", " ", "y">>,
     <<"\t", "#", " ", "o", "n", "l", "y", " ", "a", " ", "c", "o", "m", "m", "e", "n", "t", "\r", "\n", " ", " ", "#", " ", "a", "n", "o", "t", "h", "e", "r", "\n">>}

ScannerInputs == ShortSources \cup SampleSources

(***************************************************************************)
(* Parser (khamseena_parser.py).  The parsing methods are operators on the *)
(* token list and the cursor; each returns the outcome "ok" with a node    *)
(* and the new cursor, or the exception it raises.                         *)
(***************************************************************************)
NoTok == Token("None", "", 0, 0)
NoErr == [msg |-> "", line |-> 0]

\* Parser.peek
Peek(toks, cur) == IF cur < Len(toks) THEN toks[cur + 1] ELSE NoTok

\* Parser.previous
Previous(toks, cur) == IF cur > 0 THEN toks[cur] ELSE NoTok

\* Parser.at_end
at_end(toks, cur) == Peek(toks, cur) = NoTok \/ Peek(toks, cur).type = EOF

Advance_m(toks, cur) == IF cur > 0 /\ ~at_end(toks, cur) THEN cur + 1 ELSE cur

\* Parser.advance: the new cursor
Advance(toks, cur) == IF ~at_end(toks, cur) THEN cur + 1 ELSE cur

\* Parser.check
Check(toks, cur, token_type) == Peek(toks, cur) # NoTok /\ Peek(toks, cur).type = token_type

\* the test of Parser.match: the current token has one of the kinds
Match(toks, cur, types) == Peek(toks, cur) # NoTok /\ Peek(toks, cur).type \in types

\* a parsing method returned node with the cursor at cur
Ok(node, cur) == [st |-> "ok", node |-> node, cur |-> cur, err |-> NoErr]

\* a raised ParseError whose text names line ln
Raise(msg, ln, cur) ==
    [st |-> "ParseError", node |-> NoneNode, cur |-> cur, err |-> [msg |-> msg, line |-> ln]]

\* Parser.error: ParseError at the line of the current token
Error(toks, cur, msg) == Raise(msg, Peek(toks, cur).line, cur)

\* LevelOps with the levels of parse_term and parse_factor exchanged
LevelOps_m == <<{OR}, {AND}, {EQUAL, NOT_EQUAL}, {GREATER, LESS, GREATER_EQUAL, LESS_EQUAL},
                {MULTIPLY, DIVIDE, MODULO}, {PLUS, MINUS}>>

\* the binary levels of the expression grammar, lowest first:
\* parse_or, parse_and, parse_equality, parse_comparison, parse_term, parse_factor
LevelOps == <<{OR}, {AND}, {EQUAL, NOT_EQUAL}, {GREATER, LESS, GREATER_EQUAL, LESS_EQUAL},
              {PLUS, MINUS}, {MULTIPLY, DIVIDE, MODULO}>>

\* binds the value a parsing method returned to a name: With(v, LAMBDA r : e)
\* is e with r standing for v, as in  r = self.method()
With(value, Rest(_)) == Rest(value)

RECURSIVE parse_expression(_, _), parse_binary(_, _, _), BinaryLoop(_, _, _, _),
          parse_unary(_, _), parse_call(_, _), CallArgs(_, _, _), parse_primary(_, _)

\* Parser.parse_primary
parse_primary(toks, cur) ==
    IF Match(toks, cur, {INTEGER}) THEN Ok(Literal(Peek(toks, cur).value, "INTEGER"), Advance(toks, cur))
    ELSE IF Match(toks, cur, {FLOAT}) THEN Ok(Literal(Peek(toks, cur).value, "FLOAT"), Advance(toks, cur))
    ELSE IF Match(toks, cur, {STRING_}) THEN Ok(Literal(Peek(toks, cur).value, "STRING"), Advance(toks, cur))
    ELSE IF Match(toks, cur, {SWEET}) THEN Ok(Literal("sweet", "BOOLEAN"), Advance(toks, cur))
    ELSE IF Match(toks, cur, {SOUR}) THEN Ok(Literal("sour", "BOOLEAN"), Advance(toks, cur))
    ELSE IF Match(toks, cur, {IDENTIFIER}) THEN Ok(Variable(Peek(toks, cur).value), Advance(toks, cur))
    ELSE IF Match(toks, cur, {LPAREN}) THEN
        With(parse_expression(toks, Advance(toks, cur)), LAMBDA e :
             IF e.st # "ok" THEN e
             ELSE IF ~Check(toks, e.cur, RPAREN) THEN Error(toks, e.cur, "Expected ')' after expression")
             ELSE Ok(e.node, Advance(toks, e.cur)))
    ELSE Error(toks, cur, "Expected expression")

\* the argument loop of parse_call: while self.match(COMMA)
CallArgs(toks, cur, args) ==
    IF Match(toks, cur, {COMMA}) THEN
        With(parse_expression(toks, Advance(toks, cur)), LAMBDA a :
             IF a.st # "ok" THEN a ELSE CallArgs(toks, a.cur, Append(args, a.node)))
    ELSE Ok(args, cur)

\* the arguments of parse_call, '(' consumed: none if ')' is next
Arguments(toks, cur) ==
    IF ~Check(toks, cur, RPAREN) THEN
        With(parse_expression(toks, cur), LAMBDA first :
             IF first.st # "ok" THEN first ELSE CallArgs(toks, first.cur, <<first.node>>))
    ELSE Ok(<<>>, cur)

\* parse_call in which a literal before '(' is called like a function
parse_call_m(toks, cur) ==
    With(parse_primary(toks, cur), LAMBDA p :
         IF p.st # "ok" THEN p
         ELSE IF Match(toks, p.cur, {LPAREN}) THEN
             With(Arguments(toks, Advance(toks, p.cur)), LAMBDA args :
                  IF args.st # "ok" THEN args
                  ELSE IF ~Check(toks, args.cur, RPAREN)
                       THEN Error(toks, args.cur, "Expected ')' after arguments")
                  ELSE IF p.node.kind = "Variable"
                       THEN Ok(FunctionCall(p.node.name, args.node), Advance(toks, args.cur))
                  ELSE IF p.node.kind = "Literal"
                       THEN Ok(FunctionCall(p.node.value, args.node), Advance(toks, args.cur))
                  ELSE Error(toks, Advance(toks, args.cur), "Can only call functions"))
         ELSE p)

\* Parser.parse_call
parse_call(toks, cur) ==
    With(parse_primary(toks, cur), LAMBDA p :
         IF p.st # "ok" THEN p
         ELSE IF Match(toks, p.cur, {LPAREN}) THEN
             With(Arguments(toks, Advance(toks, p.cur)), LAMBDA args :
                  IF args.st # "ok" THEN args
                  ELSE IF ~Check(toks, args.cur, RPAREN)
                       THEN Error(toks, args.cur, "Expected ')' after arguments")
                  ELSE IF p.node.kind = "Variable"
                       THEN Ok(FunctionCall(p.node.name, args.node), Advance(toks, args.cur))
                  ELSE Error(toks, Advance(toks, args.cur), "Can only call functions"))
         ELSE p)

\* Parser.parse_unary
parse_unary(toks, cur) ==
    IF Match(toks, cur, {NOT, MINUS}) THEN
        With(parse_unary(toks, Advance(toks, cur)), LAMBDA right :
             IF right.st # "ok" THEN right
             ELSE Ok(UnaryOp(Peek(toks, cur).value, right.node), right.cur))
    ELSE parse_call(toks, cur)

\* the operand of binary level lvl: the next level, or parse_unary
Operand(lvl, toks, cur) ==
    IF lvl < Len(LevelOps) THEN parse_binary(lvl + 1, toks, cur) ELSE parse_unary(toks, cur)

\* the while self.match(...) loop of a binary level, with expr parsed so far
BinaryLoop(lvl, toks, cur, expr) ==
    IF Match(toks, cur, LevelOps[lvl]) THEN
        With(Operand(lvl, toks, Advance(toks, cur)), LAMBDA right :
             IF right.st # "ok" THEN right
             ELSE BinaryLoop(lvl, toks, right.cur, BinaryOp(expr, Peek(toks, cur).value, right.node)))
    ELSE Ok(expr, cur)

\* Parser.parse_or .. Parser.parse_factor
parse_binary(lvl, toks, cur) ==
    With(Operand(lvl, toks, cur), LAMBDA left :
         IF left.st # "ok" THEN left ELSE BinaryLoop(lvl, toks, left.cur, left.node))

\* Parser.parse_expression
parse_expression(toks, cur) == parse_binary(1, toks, cur)

\* results of the statement methods also carry the warnings printed so far
SOk(node, cur, rep) == [st |-> "ok", node |-> node, cur |-> cur, rep |-> rep, err |-> NoErr]
SError(toks, cur, rep, msg) ==
    [st |-> "ParseError", node |-> NoneNode, cur |-> cur, rep |-> rep,
     err |-> [msg |-> msg, line |-> Peek(toks, cur).line]]
Lift(r, rep) == [st |-> r.st, node |-> r.node, cur |-> r.cur, rep |-> rep, err |-> r.err]

\* the statement end shared by declaration, assignment, print, input and
\* return: a missing ';' raises a ParseError naming line ln
EndStatement(toks, cur, node, ln, what) ==
    IF ~Check(toks, cur, SEMICOLON) THEN Raise("Expected ';' after " \o what, ln, cur)
    ELSE Ok(node, Advance(toks, cur))

\* an optional or required expression followed by the statement end
ExprStatement(toks, cur, ln, what, kind) ==
    With(parse_expression(toks, cur), LAMBDA e :
         IF e.st # "ok" THEN e
         ELSE EndStatement(toks, e.cur, [kind |-> kind, expression |-> e.node], ln, what))

\* the initializer of parse_var_declaration: None unless '=' is next
Initializer(toks, cur) ==
    IF Match(toks, cur, {ASSIGN}) THEN parse_expression(toks, Advance(toks, cur))
    ELSE Ok(NoneNode, cur)

\* Parser.parse_var_declaration (the type keyword is consumed)
parse_var_declaration(toks, cur) ==
    IF ~Check(toks, cur, IDENTIFIER) THEN Error(toks, cur, "Expected variable name")
    ELSE With(Initializer(toks, Advance(toks, cur)), LAMBDA init :
              IF init.st # "ok" THEN init
              ELSE EndStatement(toks, init.cur,
                                VarDeclaration(Previous(toks, cur).value, Peek(toks, cur).value, init.node),
                                Peek(toks, cur).line, "variable declaration"))

\* Parser.parse_assignment (the identifier is consumed, '=' is next)
parse_assignment(toks, cur) ==
    IF ~Check(toks, cur, ASSIGN) THEN Error(toks, cur, "Expected '=' in assignment")
    ELSE With(parse_expression(toks, Advance(toks, cur)), LAMBDA value :
              IF value.st # "ok" THEN value
              ELSE EndStatement(toks, value.cur, Assignment(Previous(toks, cur).value, value.node),
                                Previous(toks, cur).line, "assignment"))

\* Parser.parse_print
parse_print(toks, cur) ==
    ExprStatement(toks, cur, Previous(toks, cur).line, "print statement", "PrintStatement")

\* Parser.parse_input
parse_input(toks, cur) ==
    ExprStatement(toks, cur, Previous(toks, cur).line, "input statement", "InputStatement")

\* the value of parse_return: None if ';' is next
ReturnValue(toks, cur) ==
    IF ~Check(toks, cur, SEMICOLON) THEN parse_expression(toks, cur) ELSE Ok(NoneNode, cur)

\* Parser.parse_return
parse_return(toks, cur) ==
    With(ReturnValue(toks, cur), LAMBDA value :
         IF value.st # "ok" THEN value
         ELSE EndStatement(toks, value.cur, ReturnStatement(value.node), Previous(toks, cur).line,
                           "return statement"))

\* Parser.parse_comment
parse_comment(toks, cur) == Ok(CommentStatement(Previous(toks, cur).value), cur)

\* Parser.parse_fetch: ast_nodes.py defines no FetchStatement, so building
\* the node raises NameError
parse_fetch(toks, cur) ==
    IF ~Check(toks, cur, IDENTIFIER) THEN Error(toks, cur, "Expected module name after 'fetch'")
    ELSE IF ~Check(toks, Advance(toks, cur), SEMICOLON)
         THEN Raise("Expected ';' after fetch statement", Peek(toks, cur).line, Advance(toks, cur))
    ELSE [st |-> "NameError", node |-> NoneNode, cur |-> Advance(toks, Advance(toks, cur)),
          err |-> [msg |-> "name 'FetchStatement' is not defined", line |-> 0]]

\* the identifier branch of parse_statement (the identifier is consumed)
parse_identifier_statement(toks, cur) ==
    IF Check(toks, cur, ASSIGN) THEN parse_assignment(toks, cur)
    ELSE IF ~Check(toks, cur, SEMICOLON) THEN Error(toks, cur, "Expected ';' after expression")
    ELSE Ok(ExpressionStatement(Variable(Previous(toks, cur).value)), Advance(toks, cur))

\* Parser.parse_parameter
ParamTypes == {COUNT, MEASURE, FLAVOR}

\* the parameter name of parse_parameter, after the optional type
ParameterName(toks, cur, param_type) ==
    IF ~Check(toks, cur, IDENTIFIER) THEN Error(toks, cur, "Expected parameter name")
    ELSE Ok(Parameter(param_type, Peek(toks, cur).value), Advance(toks, cur))

parse_parameter(toks, cur) ==
    IF Match(toks, cur, ParamTypes)
    THEN ParameterName(toks, Advance(toks, cur), Peek(toks, cur).value)
    ELSE ParameterName(toks, cur, "")

\* the parameter loop of parse_function: while self.match(COMMA)
RECURSIVE MoreParameters(_, _, _)
MoreParameters(toks, cur, params) ==
    IF Match(toks, cur, {COMMA}) THEN
        With(parse_parameter(toks, Advance(toks, cur)), LAMBDA p :
             IF p.st # "ok" THEN p ELSE MoreParameters(toks, p.cur, Append(params, p.node)))
    ELSE Ok(params, cur)

\* the parameters of parse_function, '(' consumed: none if ')' is next
Parameters(toks, cur) ==
    IF ~Check(toks, cur, RPAREN) THEN
        With(parse_parameter(toks, cur), LAMBDA first :
             IF first.st # "ok" THEN first ELSE MoreParameters(toks, first.cur, <<first.node>>))
    ELSE Ok(<<>>, cur)

\* the loop of Parser.synchronize
RECURSIVE SyncLoop(_, _)
SyncLoop(toks, cur) ==
    IF at_end(toks, cur) THEN cur
    ELSE IF Previous(toks, cur).type = SEMICOLON THEN cur
    ELSE IF Peek(toks, cur).type \in {RECIPE, SERVE, COUNT} THEN cur
    ELSE SyncLoop(toks, Advance(toks, cur))

\* Parser.synchronize: the cursor where parsing resumes
synchronize(toks, cur) == SyncLoop(toks, Advance(toks, cur))

DeclarationTypes == {COUNT, MEASURE, NOTE, FLAVOR}

RECURSIVE parse_statement(_, _, _), StatementBody(_, _, _), parse_block(_, _, _),
          BlockLoop(_, _, _, _), parse_function(_, _, _), parse_if(_, _, _), parse_while(_, _, _)

\* parse_function from the '{' of the body on
FunctionBody(toks, cur, rep, name, params) ==
    IF ~Check(toks, cur, LBRACE) THEN SError(toks, cur, rep, "Expected '{' in function body")
    ELSE With(parse_block(toks, Advance(toks, cur), rep), LAMBDA body :
              IF body.st # "ok" THEN body
              ELSE SOk(FunctionDef(name, params, body.node), body.cur, body.rep))

\* Parser.parse_function (recipe is consumed)
parse_function(toks, cur, rep) ==
    IF ~Check(toks, cur, IDENTIFIER) THEN SError(toks, cur, rep, "Expected function name")
    ELSE IF ~Check(toks, Advance(toks, cur), LPAREN)
         THEN SError(toks, Advance(toks, cur), rep, "Expected '(' in function parameters")
    ELSE With(Parameters(toks, Advance(toks, Advance(toks, cur))), LAMBDA params :
              IF params.st # "ok" THEN Lift(params, rep)
              ELSE IF ~Check(toks, params.cur, RPAREN)
                   THEN SError(toks, params.cur, rep, "Expected ')' after parameters")
              ELSE FunctionBody(toks, Advance(toks, params.cur), rep, Peek(toks, cur).value,
                                params.node))

\* the retaste part of parse_if, after the then branch
ElseBranch(toks, rep, condition, then_stmt) ==
    IF Match(toks, then_stmt.cur, {RETASTE}) THEN
        IF ~Check(toks, Advance(toks, then_stmt.cur), LBRACE)
        THEN SError(toks, Advance(toks, then_stmt.cur), then_stmt.rep,
                    "Expected '{' in retaste statement body")
        ELSE With(parse_statement(toks, Advance(toks, then_stmt.cur), then_stmt.rep),
                  LAMBDA else_stmt :
                      IF else_stmt.st # "ok" THEN else_stmt
                      ELSE SOk(IfStatement(condition.node, then_stmt.node, else_stmt.node),
                               else_stmt.cur, else_stmt.rep))
    ELSE SOk(IfStatement(condition.node, then_stmt.node, NoneNode), then_stmt.cur, then_stmt.rep)

\* Parser.parse_if (taste is consumed)
parse_if(toks, cur, rep) ==
    IF ~Check(toks, cur, LPAREN) THEN SError(toks, cur, rep, "Expected '(' in taste statement")
    ELSE With(parse_expression(toks, Advance(toks, cur)), LAMBDA condition :
              IF condition.st # "ok" THEN Lift(condition, rep)
              ELSE IF ~Check(toks, condition.cur, RPAREN)
                   THEN SError(toks, condition.cur, rep, "Expected ')' after taste condition")
              ELSE IF ~Check(toks, Advance(toks, condition.cur), LBRACE)
                   THEN SError(toks, Advance(toks, condition.cur), rep,
                               "Expected '{' in taste statement body")
              ELSE With(parse_statement(toks, Advance(toks, condition.cur), rep),
                        LAMBDA then_stmt :
                            IF then_stmt.st # "ok" THEN then_stmt
                            ELSE ElseBranch(toks, rep, condition, then_stmt)))

\* Parser.parse_while (stir is consumed)
parse_while(toks, cur, rep) ==
    IF ~Check(toks, cur, LPAREN) THEN SError(toks, cur, rep, "Expected '(' in stir statement")
    ELSE With(parse_expression(toks, Advance(toks, cur)), LAMBDA condition :
              IF condition.st # "ok" THEN Lift(condition, rep)
              ELSE IF ~Check(toks, condition.cur, RPAREN)
                   THEN SError(toks, condition.cur, rep, "Expected ')' after stir condition")
              ELSE IF ~Check(toks, Advance(toks, condition.cur), LBRACE)
                   THEN SError(toks, Advance(toks, condition.cur), rep,
                               "Expected '{' in stir statement body")
              ELSE With(parse_statement(toks, Advance(toks, condition.cur), rep),
                        LAMBDA body :
                            IF body.st # "ok" THEN body
                            ELSE SOk(WhileStatement(condition.node, body.node), body.cur, body.rep)))

\* statements.append(stmt) if stmt is not None
Collect(stmts, node) == IF node.kind # "None" THEN Append(stmts, node) ELSE stmts

\* the loop of parse_block with the statements collected so far
BlockLoop(toks, cur, rep, stmts) ==
    IF ~Check(toks, cur, RBRACE) /\ ~at_end(toks, cur) THEN
        With(parse_statement(toks, cur, rep), LAMBDA r :
             IF r.st # "ok" THEN r
             ELSE BlockLoop(toks, r.cur, r.rep, Collect(stmts, r.node)))
    ELSE IF ~Check(toks, cur, RBRACE) THEN SError(toks, cur, rep, "Expected '}'")
    ELSE SOk(Block(stmts), Advance(toks, cur), rep)

\* Parser.parse_block ('{' is consumed)
parse_block(toks, cur, rep) == BlockLoop(toks, cur, rep, <<>>)

\* the try body of parse_statement: dispatch on the current token, which
\* match consumes
StatementBody(toks, cur, rep) ==
    IF Match(toks, cur, {FETCH}) THEN Lift(parse_fetch(toks, Advance(toks, cur)), rep)
    ELSE IF Match(toks, cur, {RECIPE}) THEN parse_function(toks, Advance(toks, cur), rep)
    ELSE IF Match(toks, cur, DeclarationTypes)
         THEN Lift(parse_var_declaration(toks, Advance(toks, cur)), rep)
    ELSE IF Match(toks, cur, {SERVE}) THEN Lift(parse_print(toks, Advance(toks, cur)), rep)
    ELSE IF Match(toks, cur, {POUR}) THEN Lift(parse_input(toks, Advance(toks, cur)), rep)
    ELSE IF Match(toks, cur, {TASTE}) THEN parse_if(toks, Advance(toks, cur), rep)
    ELSE IF Match(toks, cur, {STIR}) THEN parse_while(toks, Advance(toks, cur), rep)
    ELSE IF Match(toks, cur, {DELIVER}) THEN Lift(parse_return(toks, Advance(toks, cur)), rep)
    ELSE IF Match(toks, cur, {COMMENT}) THEN Lift(parse_comment(toks, Advance(toks, cur)), rep)
    ELSE IF Match(toks, cur, {LBRACE}) THEN parse_block(toks, Advance(toks, cur), rep)
    ELSE IF Match(toks, cur, {IDENTIFIER})
         THEN Lift(parse_identifier_statement(toks, Advance(toks, cur)), rep)
    ELSE SOk(NoneNode, Advance(toks, cur), rep)

\* Parser.parse_statement: a ParseError of the body is printed as a warning,
\* the parser synchronizes and the statement yields None
parse_statement(toks, cur, rep) ==
    With(StatementBody(toks, cur, rep), LAMBDA r :
         IF r.st = "ParseError"
         THEN SOk(NoneNode, synchronize(toks, r.cur), Append(r.rep, r.err))
         ELSE r)

\* Parser.parse as a function of the token list: the loop from cursor cur on
RECURSIVE ParseLoop(_, _, _, _)
ParseLoop(toks, cur, stmts, rep) ==
    IF at_end(toks, cur) THEN [st |-> "done", statements |-> stmts, rep |-> rep, cur |-> cur]
    ELSE With(parse_statement(toks, cur, rep), LAMBDA r :
              IF r.st # "ok"
              THEN [st |-> r.st, statements |-> stmts, rep |-> r.rep, cur |-> r.cur]
              ELSE ParseLoop(toks, r.cur, Collect(stmts, r.node), r.rep))

parse(toks) == ParseLoop(toks, 0, <<>>, <<>>)

(***************************************************************************)
(* Parser as a state machine: parse() runs parse_statement until the       *)
(* cursor is at the end, one top-level statement per step.                 *)
(***************************************************************************)
\* Parser.__init__
ParserInit(inputs) ==
    /\ ptokens \in inputs
    /\ current = 0
    /\ statements = <<>>
    /\ reported = <<>>
    /\ ppc = "parse"

\* parse's loop takes the outcome r of parse_statement; an exception
\* leaving parse_statement leaves parse and reaches the caller
Outcome(r) ==
    /\ current' = r.cur
    /\ reported' = r.rep
    /\ statements' = IF r.st = "ok" THEN Collect(statements, r.node) ELSE statements
    /\ ppc' = IF r.st = "ok" THEN "parse" ELSE r.st

\* one iteration of parse's loop
ParseStatement ==
    /\ ppc = "parse"
    /\ ~at_end(ptokens, current)
    /\ Outcome(parse_statement(ptokens, current, reported))
    /\ UNCHANGED ptokens
    /\ UNCHANGED <<scanVars, semVars>>

\* the cursor is at the end: parse returns Program(statements)
ParseReturn ==
    /\ ppc = "parse"
    /\ at_end(ptokens, current)
    /\ ppc' = "done"
    /\ UNCHANGED <<ptokens, current, statements, reported>>
    /\ UNCHANGED <<scanVars, semVars>>

ParseNext == ParseStatement \/ ParseReturn

(***************************************************************************)
(* Token lists handed to the parser                                        *)
(***************************************************************************)
\* a token's kind and text, before it is given a position
K(token_type, value) == <<token_type, value>>

\* the tokens of one source line
OnLine(pairs, ln) == [i \in 1..Len(pairs) |-> Token(pairs[i][1], pairs[i][2], ln, i)]

\* every token on a line of its own, then the end-of-file token
OnePerLine(pairs) ==
    [i \in 1..Len(pairs) |-> Token(pairs[i][1], pairs[i][2], i, 1)]
    \o <<Token(EOF, "", Len(pairs) + 1, 1)>>

TokAlphabet == {K(SERVE, "serve"), K(COUNT, "count"), K(IDENTIFIER, "x"), K(INTEGER, "1"),
                K(ASSIGN, "="), K(SEMICOLON, ";"), K(LBRACE, "{"), K(RBRACE, "}"),
                K(FETCH, "fetch"), K(COMMENT, "#c")}

ShortInputs == {OnePerLine(p) : p \in SeqsUpTo(TokAlphabet, MaxTokens)}

\* well-formed body statements and the node each one stands for
BodyStmts ==
    {[toks |-> <<K(COUNT, "count"), K(IDENTIFIER, "x"), K(ASSIGN, "="), K(INTEGER, "5"), K(SEMICOLON, ";")>>,
      kind |-> "VarDeclaration"],
     [toks |-> <<K(NOTE, "note"), K(IDENTIFIER, "s"), K(SEMICOLON, ";")>>,
      kind |-> "VarDeclaration"],
     [toks |-> <<K(MEASURE, "measure"), K(IDENTIFIER, "y"), K(ASSIGN, "="), K(FLOAT, "2.5"), K(SEMICOLON, ";")>>,
      kind |-> "VarDeclaration"],
     [toks |-> <<K(SERVE, "serve"), K(IDENTIFIER, "x"), K(SEMICOLON, ";")>>,
      kind |-> "PrintStatement"],
     [toks |-> <<K(SERVE, "serve"), K(IDENTIFIER, "x"), K(PLUS, "+"), K(INTEGER, "1"), K(SEMICOLON, ";")>>,
      kind |-> "PrintStatement"],
     [toks |-> <<K(IDENTIFIER, "x"), K(ASSIGN, "="), K(IDENTIFIER, "x"), K(MULTIPLY, "*"), K(INTEGER, "2"), K(SEMICOLON, ";")>>,
      kind |-> "Assignment"],
     [toks |-> <<K(DELIVER, "deliver"), K(INTEGER, "0"), K(SEMICOLON, ";")>>,
      kind |-> "ReturnStatement"],
     [toks |-> <<K(DELIVER, "deliver"), K(SEMICOLON, ";")>>,
      kind |-> "ReturnStatement"]}

\* well-formed parameter lists: typed by each type keyword, and untyped
ParamLists ==
    {<<>>,
     <<K(COUNT, "count"), K(IDENTIFIER, "a")>>,
     <<K(IDENTIFIER, "a")>>,
     <<K(MEASURE, "measure"), K(IDENTIFIER, "a"), K(COMMA, ","), K(FLAVOR, "flavor"), K(IDENTIFIER, "b")>>,
     <<K(NOTE, "note"), K(IDENTIFIER, "s")>>}

FnDescs == [name : {"main"}, params : ParamLists, body : SeqsUpTo(BodyStmts, MaxBody)]

RECURSIVE BodyTokens(_, _)
BodyTokens(body, k) ==
    IF k > Len(body) THEN <<>> ELSE OnLine(body[k].toks, k + 1) \o BodyTokens(body, k + 1)

\* recipe NAME ( params ) { on line 1, a statement per line, } on the last
FnTokens(fn) ==
    OnLine(<<K(RECIPE, "recipe"), K(IDENTIFIER, fn.name), K(LPAREN, "(")>> \o fn.params
           \o <<K(RPAREN, ")"), K(LBRACE, "{")>>, 1)
    \o BodyTokens(fn.body, 1)
    \o <<Token(RBRACE, "}", Len(fn.body) + 2, 1), Token(EOF, "", Len(fn.body) + 2, 2)>>

FunctionInputs == {FnTokens(fn) : fn \in FnDescs}

\* the branch of a taste or stir statement: a block, or a single statement
Branches ==
    {[toks |-> <<K(LBRACE, "{"), K(SERVE, "serve"), K(IDENTIFIER, "x"), K(SEMICOLON, ";"), K(RBRACE, "}")>>,
      block |-> TRUE],
     [toks |-> <<K(SERVE, "serve"), K(IDENTIFIER, "x"), K(SEMICOLON, ";")>>,
      block |-> FALSE]}

\* what follows the then branch: nothing, retaste with a branch, or retaste
\* with another taste statement
ElseParts ==
    {[toks |-> <<>>, else_kind |-> "none", block |-> TRUE]}
    \cup {[toks |-> <<K(RETASTE, "retaste")>> \o b.toks, else_kind |-> "branch", block |-> b.block] :
          b \in Branches}
    \cup {[toks |-> <<K(RETASTE, "retaste"), K(TASTE, "taste"), K(LPAREN, "("), K(IDENTIFIER, "c2"),
                      K(RPAREN, ")")>> \o b.toks,
           else_kind |-> "taste", block |-> b.block] : b \in {b \in Branches : b.block}}

ControlDescs ==
    [head : {K(TASTE, "taste")}, branch : Branches, else_part : ElseParts]
    \cup [head : {K(STIR, "stir")}, branch : Branches,
          else_part : {e \in ElseParts : e.else_kind = "none"}]

\* taste ( c ) branch on line 1, the retaste part on line 2
ControlTokens(d) ==
    OnLine(<<d.head, K(LPAREN, "("), K(IDENTIFIER, "c"), K(RPAREN, ")")>> \o d.branch.toks, 1)
    \o OnLine(d.else_part.toks, 2)
    \o <<Token(EOF, "", 3, 1)>>

ControlInputs == {ControlTokens(d) : d \in ControlDescs}

\* what a block belongs to: nothing, a function, a taste or a stir statement
BlockOwners ==
    {[toks |-> <<>>, owner |-> "Block"],
     [toks |-> <<K(RECIPE, "recipe"), K(IDENTIFIER, "f"), K(LPAREN, "("), K(RPAREN, ")")>>,
      owner |-> "FunctionDef"],
     [toks |-> <<K(TASTE, "taste"), K(LPAREN, "("), K(IDENTIFIER, "c"), K(RPAREN, ")")>>,
      owner |-> "IfStatement"],
     [toks |-> <<K(STIR, "stir"), K(LPAREN, "("), K(IDENTIFIER, "c"), K(RPAREN, ")")>>,
      owner |-> "WhileStatement"]}

\* malformed statements: with their own ';' after the error, or without one
BadStmts ==
    {[toks |-> <<K(SERVE, "serve"), K(SEMICOLON, ";")>>, semicolon |-> TRUE],
     [toks |-> <<K(IDENTIFIER, "x"), K(IDENTIFIER, "x"), K(SEMICOLON, ";")>>, semicolon |-> TRUE],
     [toks |-> <<K(IDENTIFIER, "x")>>, semicolon |-> FALSE]}

\* a block with one malformed statement, between optional well-formed
\* statements, and an optional statement after the block
BlockErrorDescs ==
    [head : BlockOwners, before : BOOLEAN, bad : BadStmts, after : BOOLEAN, following : BOOLEAN]

BlockErrorTokens(d) ==
    OnLine(d.head.toks \o <<K(LBRACE, "{")>>
           \o (IF d.before THEN <<K(SERVE, "serve"), K(IDENTIFIER, "a"), K(SEMICOLON, ";")>> ELSE <<>>)
           \o d.bad.toks
           \o (IF d.after THEN <<K(IDENTIFIER, "y"), K(ASSIGN, "="), K(INTEGER, "2"), K(SEMICOLON, ";")>>
               ELSE <<>>)
           \o <<K(RBRACE, "}")>>
           \o (IF d.following THEN <<K(SERVE, "serve"), K(IDENTIFIER, "z"), K(SEMICOLON, ";")>>
               ELSE <<>>)
           \o <<K(EOF, "")>>, 1)

BlockErrorInputs == {BlockErrorTokens(d) : d \in BlockErrorDescs}

ParserInputs == ShortInputs \cup FunctionInputs \cup ControlInputs \cup BlockErrorInputs

\* the binary and the unary operator tokens
BinaryOperators ==
    {K(OR, "||"), K(AND, "&&"), K(EQUAL, "=="), K(NOT_EQUAL, "!="), K(GREATER, ">"), K(LESS, "<"),
     K(GREATER_EQUAL, ">="), K(LESS_EQUAL, "<="), K(PLUS, "+"), K(MINUS, "-"), K(MULTIPLY, "*"),
     K(DIVIDE, "/"), K(MODULO, "%")}

UnaryOperators == {K(NOT, "!"), K(MINUS, "-")}

\* serve a op1 b op2 c ;
PrecedenceTokens(op1, op2) ==
    OnLine(<<K(SERVE, "serve"), K(IDENTIFIER, "a"), op1, K(IDENTIFIER, "b"), op2, K(IDENTIFIER, "c"),
             K(SEMICOLON, ";"), K(EOF, "")>>, 1)

\* serve u a op b ;   and   serve a op u b ;
UnaryTokens(u, op, leading) ==
    OnLine(<<K(SERVE, "serve")>>
           \o (IF leading THEN <<u, K(IDENTIFIER, "a"), op, K(IDENTIFIER, "b")>>
               ELSE <<K(IDENTIFIER, "a"), op, u, K(IDENTIFIER, "b")>>)
           \o <<K(SEMICOLON, ";"), K(EOF, "")>>, 1)

OperatorInputs ==
    {PrecedenceTokens(op1, op2) : op1 \in BinaryOperators, op2 \in BinaryOperators}
    \cup {UnaryTokens(u, op, leading) : u \in UnaryOperators, op \in BinaryOperators, leading \in BOOLEAN}

\* what stands before the '(' of a call: a bare identifier, an identifier in
\* parentheses, a literal, or another parenthesised expression
Callees ==
    {[toks |-> <<K(IDENTIFIER, "f")>>, form |-> "identifier"],
     [toks |-> <<K(LPAREN, "("), K(IDENTIFIER, "f"), K(RPAREN, ")")>>, form |-> "parenthesised identifier"],
     [toks |-> <<K(LPAREN, "("), K(LPAREN, "("), K(IDENTIFIER, "f"), K(RPAREN, ")"), K(RPAREN, ")")>>,
      form |-> "parenthesised identifier"],
     [toks |-> <<K(INTEGER, "1")>>, form |-> "literal"],
     [toks |-> <<K(FLOAT, "2.5")>>, form |-> "literal"],
     [toks |-> <<K(STRING_, "\"s\"")>>, form |-> "literal"],
     [toks |-> <<K(SWEET, "sweet")>>, form |-> "literal"],
     [toks |-> <<K(SOUR, "sour")>>, form |-> "literal"],
     [toks |-> <<K(LPAREN, "("), K(INTEGER, "1"), K(RPAREN, ")")>>, form |-> "parenthesised expression"],
     [toks |-> <<K(LPAREN, "("), K(IDENTIFIER, "f"), K(PLUS, "+"), K(IDENTIFIER, "g"), K(RPAREN, ")")>>,
      form |-> "parenthesised expression"],
     [toks |-> <<K(LPAREN, "("), K(MINUS, "-"), K(IDENTIFIER, "f"), K(RPAREN, ")")>>,
      form |-> "parenthesised expression"]}

\* well-formed argument lists and the nodes of their arguments
ArgLists ==
    {[toks |-> <<>>, nodes |-> <<>>],
     [toks |-> <<K(INTEGER, "1")>>, nodes |-> <<Literal("1", "INTEGER")>>],
     [toks |-> <<K(IDENTIFIER, "a"), K(COMMA, ","), K(IDENTIFIER, "b")>>,
      nodes |-> <<Variable("a"), Variable("b")>>]}

\* serve callee ( arguments ) ;
CallTokens(callee, args) ==
    OnLine(<<K(SERVE, "serve")>> \o callee.toks \o <<K(LPAREN, "(")>> \o args.toks
           \o <<K(RPAREN, ")"), K(SEMICOLON, ";"), K(EOF, "")>>, 1)

CallInputs == {CallTokens(callee, args) : callee \in Callees, args \in ArgLists}

\* one token of every kind the scanner produces, by what it is in the language
KeywordTokens ==
    {K(BREW, "brew"), K(RECIPE, "recipe"), K(COUNT, "count"), K(MEASURE, "measure"), K(NOTE, "note"),
     K(FLAVOR, "flavor"), K(SERVE, "serve"), K(POUR, "pour"), K(TASTE, "taste"), K(RETASTE, "retaste"),
     K(STIR, "stir"), K(MIX, "mix"), K(STOP, "stop"), K(SKIP, "skip"), K(DELIVER, "deliver"),
     K(FETCH, "fetch")}

PrimaryCandidates ==
    {[tok |-> K(INTEGER, "1"), form |-> "INTEGER"], [tok |-> K(FLOAT, "2.5"), form |-> "FLOAT"],
     [tok |-> K(STRING_, "\"s\""), form |-> "STRING"], [tok |-> K(SWEET, "sweet"), form |-> "BOOLEAN"],
     [tok |-> K(SOUR, "sour"), form |-> "BOOLEAN"], [tok |-> K(IDENTIFIER, "a"), form |-> "identifier"],
     [tok |-> K(COMMENT, "#c"), form |-> "comment"], [tok |-> K(EOF, ""), form |-> "end of file"]}
    \cup [tok : KeywordTokens, form : {"keyword"}]
    \cup [tok : BinaryOperators \cup {K(ASSIGN, "="), K(NOT, "!")}, form : {"operator"}]
    \cup [tok : {K(RPAREN, ")"), K(LBRACE, "{"), K(RBRACE, "}"), K(SEMICOLON, ";"), K(COMMA, ",")},
          form : {"delimiter"}]

\* serve token ;   with the token where parse_primary is called
PrimaryTokens(c) ==
    IF c.tok[1] = EOF THEN OnLine(<<K(SERVE, "serve"), c.tok>>, 1)
    ELSE OnLine(<<K(SERVE, "serve"), c.tok, K(SEMICOLON, ";"), K(EOF, "")>>, 1)

PrimaryInputs == {PrimaryTokens(c) : c \in PrimaryCandidates}

\* statements that begin with an identifier, and the node each one stands for
IdentifierStmts ==
    {[toks |-> <<K(IDENTIFIER, "x"), K(SEMICOLON, ";")>>,
      node |-> ExpressionStatement(Variable("x")), form |-> "identifier"],
     [toks |-> <<K(IDENTIFIER, "f"), K(LPAREN, "("), K(IDENTIFIER, "a"), K(RPAREN, ")"), K(SEMICOLON, ";")>>,
      node |-> ExpressionStatement(FunctionCall("f", <<Variable("a")>>)), form |-> "expression"],
     [toks |-> <<K(IDENTIFIER, "f"), K(LPAREN, "("), K(RPAREN, ")"), K(SEMICOLON, ";")>>,
      node |-> ExpressionStatement(FunctionCall("f", <<>>)), form |-> "expression"],
     [toks |-> <<K(IDENTIFIER, "x"), K(PLUS, "+"), K(INTEGER, "1"), K(SEMICOLON, ";")>>,
      node |-> ExpressionStatement(BinaryOp(Variable("x"), "+", Literal("1", "INTEGER"))),
      form |-> "expression"],
     [toks |-> <<K(IDENTIFIER, "x"), K(EQUAL, "=="), K(IDENTIFIER, "y"), K(SEMICOLON, ";")>>,
      node |-> ExpressionStatement(BinaryOp(Variable("x"), "==", Variable("y"))),
      form |-> "expression"],
     [toks |-> <<K(IDENTIFIER, "x"), K(ASSIGN, "="), K(INTEGER, "1"), K(SEMICOLON, ";")>>,
      node |-> Assignment("x", Literal("1", "INTEGER")), form |-> "assignment"],
     [toks |-> <<K(IDENTIFIER, "x"), K(ASSIGN, "="), K(IDENTIFIER, "f"), K(LPAREN, "("), K(IDENTIFIER, "a"),
                 K(RPAREN, ")"), K(SEMICOLON, ";")>>,
      node |-> Assignment("x", FunctionCall("f", <<Variable("a")>>)), form |-> "assignment"]}

IdentifierTokens(d) == OnLine(d.toks \o <<K(EOF, "")>>, 1)

IdentifierInputs == {IdentifierTokens(d) : d \in IdentifierStmts}

ExprInputs == OperatorInputs \cup CallInputs \cup PrimaryInputs \cup IdentifierInputs

(***************************************************************************)
(* Semantic analyzer (semantic_analyzer.py)                                *)
(***************************************************************************)
\* SymbolTable.__init__: symbols is a function name -> [type, kind] whose
\* domain is the set of defined names; scopes are held in an arena and
\* parent / children are indices into it (0 = no parent).
SymbolTable(parent, scope_name) ==
    [symbols |-> <<>>, parent |-> parent, scope_name |-> scope_name, children |-> <<>>]

\* SemanticAnalyzer.type_map
type_map == [t \in {"count", "measure", "note", "flavor"} |->
                CASE t = "count" -> "INTEGER"
                  [] t = "measure" -> "FLOAT"
                  [] t = "note" -> "STRING"
                  [] t = "flavor" -> "BOOLEAN"]

\* str.upper() on the type texts that reach the analyzer
upper(t) ==
    CASE t = "count" -> "COUNT"
      [] t = "measure" -> "MEASURE"
      [] t = "note" -> "NOTE"
      [] t = "flavor" -> "FLAVOR"
      [] t = "#c" -> "#C"
      [] OTHER -> t

\* type_map.get(t, t.upper())
MapType(t) == IF t \in DOMAIN type_map THEN type_map[t] ELSE upper(t)

\* The analyzer's mutable state threaded through the visitors.
AState(sc, cur, errs, warns, counter, ftl) ==
    [scopes |-> sc, cur |-> cur, errors |-> errs, warnings |-> warns,
     counter |-> counter, fatal |-> ftl]

\* A diagnostic text, kept as its format and the values substituted in it.
Diag(msg, name, a, b) == [msg |-> msg, name |-> name, a |-> a, b |-> b]

NoFatal == Diag("", "", "", "")

AddError(st, d) == [st EXCEPT !.errors = Append(@, d)]
AddWarning(st, d) == [st EXCEPT !.warnings = Append(@, d)]

\* SymbolTable.lookup: index of the nearest scope defining name, 0 if none
RECURSIVE lookup(_, _, _)
lookup(sc, s, name) ==
    IF name \in DOMAIN sc[s].symbols THEN s
    ELSE IF sc[s].parent # 0 THEN lookup(sc, sc[s].parent, name)
    ELSE 0

\* SymbolTable.lookup_local (used as a truth value): is name in this scope
HasLocal_m(sc, s, name) == lookup(sc, s, name) # 0
HasLocal(sc, s, name) == name \in DOMAIN sc[s].symbols

\* SymbolTable.exists
exists(sc, s, name) == lookup(sc, s, name) # 0

\* SymbolTable.get_type: the type or "" (None)
get_type(sc, s, name) ==
    IF lookup(sc, s, name) # 0 THEN sc[lookup(sc, s, name)].symbols[name].type ELSE ""

\* SymbolTable.define: raises SemanticError when the name is in the scope
DefineRaises(sc, s, name) == name \in DOMAIN sc[s].symbols

define(sc, s, name, symbol_type, kind) ==
    [sc EXCEPT ![s].symbols =
        [n \in (DOMAIN sc[s].symbols) \cup {name} |->
            IF n = name THEN [type |-> symbol_type, kind |-> kind]
            ELSE sc[s].symbols[n]]]

DefineError(sc, s, name) == Diag("Symbol already defined in scope", name, sc[s].scope_name, "")

\* f"block_{n}" and f"function_{name}"
BlockName(n) == "block_" \o ToString(n)
FunctionScopeName(name) == "function_" \o name

\* SemanticAnalyzer.enter_scope
enter_scope(st, scope_name) ==
    LET counter == IF scope_name = "" THEN st.counter + 1 ELSE st.counter
        nm == IF scope_name = "" THEN BlockName(counter) ELSE scope_name
        new == Len(st.scopes) + 1
        sc1 == Append(st.scopes, SymbolTable(st.cur, nm))
        sc2 == [sc1 EXCEPT ![st.cur].children = Append(@, new)]
    IN [st EXCEPT !.scopes = sc2, !.cur = new, !.counter = counter]

\* exit_scope that stays in the scope it is to leave
exit_scope_m(st) == st

\* SemanticAnalyzer.exit_scope
exit_scope(st) ==
    IF st.scopes[st.cur].parent # 0 THEN [st EXCEPT !.cur = st.scopes[st.cur].parent] ELSE st

\* SemanticAnalyzer.is_compatible(target_type, source_type)
is_compatible_m(target_type, source_type) ==
    IF source_type = "ANY" \/ target_type = "ANY" THEN TRUE
    ELSE IF target_type = source_type THEN TRUE
    ELSE IF target_type \in {"FLOAT", "INTEGER"} /\ source_type \in {"FLOAT", "INTEGER"} THEN TRUE
    ELSE FALSE
is_compatible(target_type, source_type) ==
    IF source_type = "ANY" \/ target_type = "ANY" THEN TRUE
    ELSE IF target_type = source_type THEN TRUE
    ELSE IF target_type = "FLOAT" /\ source_type = "INTEGER" THEN TRUE
    ELSE FALSE

Numeric == {"INTEGER", "FLOAT"}
ArithOps == {"+", "-", "*", "/", "%"}
CompareOps == {">", "<", ">=", "<=", "==", "!="}
LogicOps == {"&&", "||"}

\* the result type of arithmetic on numeric operands
ArithResult_m(left_type, right_type) == IF left_type = "FLOAT" THEN "FLOAT" ELSE "INTEGER"
ArithResult(left_type, right_type) ==
    IF "FLOAT" \in {left_type, right_type} THEN "FLOAT" ELSE "INTEGER"

\* the BinaryOp branch of get_expression_type, given the operand types
BinaryType(st, operator, left_type, right_type) ==
    IF operator \in ArithOps THEN
        IF left_type \in Numeric /\ right_type \in Numeric
        THEN [type |-> ArithResult(left_type, right_type), st |-> st]
        ELSE [type |-> "ANY",
              st |-> AddError(st, Diag("Invalid operands", operator, left_type, right_type))]
    ELSE IF operator \in CompareOps THEN
        [type |-> "BOOLEAN",
         st |-> IF left_type # right_type /\ left_type # "ANY" /\ right_type # "ANY"
                THEN AddWarning(st, Diag("Comparing different types", operator, left_type, right_type))
                ELSE st]
    ELSE IF operator \in LogicOps THEN
        LET st1 == IF left_type \notin {"BOOLEAN", "ANY"}
                   THEN AddWarning(st, Diag("Left operand should be BOOLEAN", operator, left_type, ""))
                   ELSE st
            st2 == IF right_type \notin {"BOOLEAN", "ANY"}
                   THEN AddWarning(st1, Diag("Right operand should be BOOLEAN", operator, right_type, ""))
                   ELSE st1
        IN [type |-> "BOOLEAN", st |-> st2]
    ELSE [type |-> "ANY", st |-> st]

\* the UnaryOp branch of get_expression_type, given the operand type
UnaryType(st, operator, operand_type) ==
    IF operator = "-" THEN
        IF operand_type \in Numeric THEN [type |-> operand_type, st |-> st]
        ELSE [type |-> "ANY",
              st |-> AddError(st, Diag("Cannot apply unary '-'", "", operand_type, ""))]
    ELSE IF operator = "!" THEN
        [type |-> "BOOLEAN",
         st |-> IF operand_type \notin {"BOOLEAN", "ANY"}
                THEN AddWarning(st, Diag("Logical NOT should operate on BOOLEAN", "", operand_type, ""))
                ELSE st]
    ELSE [type |-> "ANY", st |-> st]

\* SemanticAnalyzer.get_expression_type: [type, st]
RECURSIVE get_expression_type(_, _)
get_expression_type(st, expr) ==
    IF expr.kind = "Literal" THEN [type |-> expr.type, st |-> st]
    ELSE IF expr.kind = "Variable" THEN
        LET var_type == get_type(st.scopes, st.cur, expr.name)
        IN IF var_type = ""
           THEN [type |-> "ANY", st |-> AddError(st, Diag("Undefined variable", expr.name, "", ""))]
           ELSE [type |-> var_type, st |-> st]
    ELSE IF expr.kind = "BinaryOp" THEN
        LET l == get_expression_type(st, expr.left)
            r == get_expression_type(l.st, expr.right)
        IN BinaryType(r.st, expr.operator, l.type, r.type)
    ELSE IF expr.kind = "UnaryOp" THEN
        LET o == get_expression_type(st, expr.operand)
        IN UnaryType(o.st, expr.operator, o.type)
    ELSE IF expr.kind = "FunctionCall" THEN [type |-> "ANY", st |-> st]
    ELSE [type |-> "ANY", st |-> st]

\* the parameter loop of visit_FunctionDef, from parameter i on
RECURSIVE DefineParams(_, _, _, _)
DefineParams(st, fname, parameters, i) ==
    IF i > Len(parameters) THEN st
    ELSE LET param == parameters[i]
             param_type == IF param.param_type \in DOMAIN type_map THEN type_map[param.param_type]
                           ELSE IF param.param_type # "" THEN upper(param.param_type)
                           ELSE "ANY"
             st1 == IF DefineRaises(st.scopes, st.cur, param.name)
                    THEN AddError(st, Diag("In function: Symbol already defined in scope",
                                           param.name, st.scopes[st.cur].scope_name, fname))
                    ELSE [st EXCEPT !.scopes = define(@, st.cur, param.name, param_type, "parameter")]
         IN DefineParams(st1, fname, parameters, i + 1)

\* SemanticAnalyzer.visit_VarDeclaration
visit_VarDeclaration(st, node) ==
    LET var_type == MapType(node.var_type)
    IN IF HasLocal(st.scopes, st.cur, node.name)
       THEN AddError(st, Diag("Variable already declared in scope", node.name,
                              st.scopes[st.cur].scope_name, ""))
       ELSE LET r == get_expression_type(st, node.initializer)
                st1 == IF node.initializer.kind # "None"
                       THEN IF ~is_compatible(var_type, r.type)
                            THEN AddError(r.st, Diag("Type mismatch in variable", node.name,
                                                     r.type, var_type))
                            ELSE r.st
                       ELSE st
            IN IF DefineRaises(st1.scopes, st1.cur, node.name)
               THEN [st1 EXCEPT !.fatal = DefineError(st1.scopes, st1.cur, node.name)]
               ELSE [st1 EXCEPT !.scopes = define(@, st1.cur, node.name, var_type, "variable")]

\* SemanticAnalyzer.visit_Assignment
visit_Assignment(st, node) ==
    IF ~exists(st.scopes, st.cur, node.name)
    THEN AddError(st, Diag("Undefined variable", node.name, "", ""))
    ELSE LET var_type == get_type(st.scopes, st.cur, node.name)
             r == get_expression_type(st, node.value)
         IN IF ~is_compatible(var_type, r.type)
            THEN AddError(r.st, Diag("Type mismatch in assignment", node.name, r.type, var_type))
            ELSE r.st

\* SemanticAnalyzer.visit_FunctionCall
visit_FunctionCall(st, node) ==
    IF ~exists(st.scopes, st.cur, node.name)
    THEN AddError(st, Diag("Undefined function", node.name, "", ""))
    ELSE IF st.scopes[lookup(st.scopes, st.cur, node.name)].symbols[node.name].kind # "function"
         THEN AddError(st, Diag("is not a function", node.name, "", ""))
         ELSE st

\* the condition check of visit_IfStatement / visit_WhileStatement
CheckCondition_m(st, condition, what) ==
    LET r == get_expression_type(st, condition)
    IN IF r.type \notin {"BOOLEAN", "ANY"}
       THEN AddError(r.st, Diag(what, "", r.type, ""))
       ELSE r.st
CheckCondition(st, condition, what) ==
    LET r == get_expression_type(st, condition)
    IN IF r.type \notin {"BOOLEAN", "ANY"}
       THEN AddWarning(r.st, Diag(what, "", r.type, ""))
       ELSE r.st

\* SemanticAnalyzer.visit: dispatch on the node's class; a raised
\* SemanticError (st.fatal set) skips everything up to analyze's handler.
RECURSIVE visit(_, _), VisitAll(_, _, _)
visit(st, node) ==
    IF st.fatal # NoFatal THEN st
    ELSE IF node.kind = "VarDeclaration" THEN visit_VarDeclaration(st, node)
    ELSE IF node.kind = "Assignment" THEN visit_Assignment(st, node)
    ELSE IF node.kind = "FunctionDef" THEN
        \* visit_FunctionDef
        IF DefineRaises(st.scopes, st.cur, node.name)
        THEN AddError(st, DefineError(st.scopes, st.cur, node.name))
        ELSE LET st1 == [st EXCEPT !.scopes = define(@, st.cur, node.name, "FUNCTION", "function")]
                 st2 == enter_scope(st1, FunctionScopeName(node.name))
                 st3 == DefineParams(st2, node.name, node.parameters, 1)
                 st4 == visit(st3, node.body)
             IN IF st4.fatal # NoFatal THEN st4 ELSE exit_scope(st4)
    ELSE IF node.kind = "Block" THEN
        \* visit_Block
        LET st1 == enter_scope(st, "")
            st2 == VisitAll(st1, node.statements, 1)
        IN IF st2.fatal # NoFatal THEN st2 ELSE exit_scope(st2)
    ELSE IF node.kind = "IfStatement" THEN
        \* visit_IfStatement
        LET st1 == CheckCondition(st, node.condition, "Condition in 'taste' should be BOOLEAN")
            st2 == visit(st1, node.then_stmt)
        IN IF node.else_stmt.kind # "None" THEN visit(st2, node.else_stmt) ELSE st2
    ELSE IF node.kind = "WhileStatement" THEN
        \* visit_WhileStatement
        LET st1 == CheckCondition(st, node.condition, "Loop condition in 'stir' should be BOOLEAN")
        IN visit(st1, node.body)
    ELSE IF node.kind \in {"PrintStatement", "InputStatement", "ExpressionStatement"} THEN
        \* visit_PrintStatement / visit_InputStatement / visit_ExpressionStatement
        get_expression_type(st, node.expression).st
    ELSE IF node.kind = "ReturnStatement" THEN
        \* visit_ReturnStatement
        IF node.value.kind # "None" THEN get_expression_type(st, node.value).st ELSE st
    ELSE IF node.kind = "FunctionCall" THEN visit_FunctionCall(st, node)
    ELSE st  \* visit_CommentStatement, generic_visit

\* the statement loops of visit_Program and visit_Block, from statement i on
VisitAll(st, stmts, i) ==
    IF i > Len(stmts) \/ st.fatal # NoFatal THEN st
    ELSE VisitAll(visit(st, stmts[i]), stmts, i + 1)

(***************************************************************************)
(* Programs handed to analyze                                              *)
(***************************************************************************)
IntLit == Literal("1", "INTEGER")
FloatLit == Literal("2.5", "FLOAT")
StrLit == Literal("s", "STRING")
BoolLit == Literal("sweet", "BOOLEAN")
CallF == FunctionCall("f", <<IntLit>>)
TypeKeywords == {"count", "measure", "note", "flavor"}

\* a branch that records exactly one error when it is analysed
Probe == Block(<<PrintStatement(Variable("u"))>>)

\* expressions of every inferred type
SourceExprs == {IntLit, FloatLit, StrLit, BoolLit, Variable("f"), CallF}

OtherExprs == {Variable("x"), BinaryOp(IntLit, "<", FloatLit), BinaryOp(StrLit, "*", IntLit),
               BinaryOp(BoolLit, "&&", IntLit), BinaryOp(Variable("u"), "-", IntLit),
               UnaryOp("-", Variable("u")), UnaryOp("-", StrLit), UnaryOp("!", IntLit),
               BinaryOp(UnaryOp("-", IntLit), "/", BinaryOp(FloatLit, "*", IntLit))}

CondExprs == {IntLit, BoolLit, StrLit, Variable("x"), CallF,
              BinaryOp(IntLit, "+", FloatLit), BinaryOp(IntLit, "<", FloatLit)}

ScopeStmts == {FunctionDef("f", <<>>, Block(<<>>)),
               FunctionDef("f", <<Parameter("count", "x"), Parameter("note", "x")>>,
                           Block(<<VarDeclaration("measure", "x", NoneNode)>>)),
               FunctionDef("x", <<>>, Block(<<ReturnStatement(Variable("x"))>>)),
               Block(<<VarDeclaration("measure", "x", NoneNode)>>),
               Block(<<VarDeclaration("note", "x", NoneNode), VarDeclaration("count", "x", FloatLit)>>),
               Block(<<VarDeclaration("flavor", "x", BoolLit), VarDeclaration("note", "y", NoneNode),
                       VarDeclaration("count", "y", NoneNode), VarDeclaration("count", "x", NoneNode)>>),
               Block(<<VarDeclaration("note", "x", NoneNode), Block(<<Assignment("x", IntLit)>>)>>)}

CondStmts == {IfStatement(c, Probe, NoneNode) : c \in CondExprs}
             \cup {WhileStatement(c, Probe) : c \in CondExprs}
             \cup {IfStatement(c, Probe, Probe) : c \in {IntLit, BoolLit}}
             \cup {IfStatement(IntLit, NoneNode, NoneNode), WhileStatement(StrLit, NoneNode)}

ExprStmts == {PrintStatement(e) : e \in OtherExprs}
             \cup {ExpressionStatement(CallF), PrintStatement(CallF), InputStatement(Variable("x")),
                   ReturnStatement(NoneNode), ReturnStatement(CallF),
                   CommentStatement("#c")}

GeneralPool == {VarDeclaration("count", "x", NoneNode), VarDeclaration("note", "x", NoneNode),
                VarDeclaration("measure", "x", IntLit), VarDeclaration("count", "x", FloatLit),
                Assignment("x", IntLit), Assignment("u", IntLit)}
               \cup ScopeStmts \cup CondStmts \cup ExprStmts

\* declarations and assignments of every (target, source) pair of types
TypesPool == {VarDeclaration(t, "x", e) : t \in TypeKeywords, e \in SourceExprs \cup {NoneNode}}
             \cup {Assignment(n, e) : n \in {"x", "f"}, e \in SourceExprs}
             \cup {FunctionDef("f", <<Parameter("", "p")>>, Block(<<Assignment("p", e)>>)) :
                      e \in SourceExprs}
             \cup {FunctionDef("f", <<>>, Block(<<>>))}

\* arithmetic over every pair of numeric operands, observed through the
\* type named in the condition warning
ArithPool == {IfStatement(BinaryOp(a, op, b), Block(<<>>), NoneNode) :
                 a \in {IntLit, FloatLit}, b \in {IntLit, FloatLit}, op \in ArithOps}
             \cup {WhileStatement(BinaryOp(Variable("x"), "+", b), Block(<<>>)) : b \in {IntLit, FloatLit}}
             \cup {IfStatement(BinaryOp(BinaryOp(IntLit, "*", Variable("x")), "-", IntLit), Block(<<>>), NoneNode),
                   IfStatement(BinaryOp(IntLit, "/", BinaryOp(IntLit, "%", FloatLit)), Block(<<>>), NoneNode)}
             \cup {VarDeclaration(t, "x", NoneNode) : t \in {"count", "measure", "note"}}

\* statements that enter scopes: functions, also of one name, blocks within
\* blocks, blocks as branches, and bodies that record errors
ScopePool == ScopeStmts
             \cup {VarDeclaration("count", "f", NoneNode),
                   Block(<<Block(<<Block(<<>>)>>), Probe>>),
                   FunctionDef("g", <<Parameter("", "p"), Parameter("count", "p")>>,
                               Block(<<Probe, Assignment("u", IntLit)>>)),
                   IfStatement(IntLit, Probe, Probe),
                   IfStatement(BoolLit, Block(<<>>), IfStatement(BoolLit, Probe, NoneNode)),
                   WhileStatement(Variable("u"), Block(<<VarDeclaration("count", "x", StrLit)>>))}

(***************************************************************************)
(* SemanticAnalyzer as a state machine: analyze(ast) walks the program's   *)
(* statements (visit_Program), one statement per step, then returns.       *)
(***************************************************************************)
CurrentState == AState(scopes, current_scope, errors, warnings, scope_counter, fatal)

\* SemanticAnalyzer.__init__, and the Program object handed to analyze
SemInit(programs) ==
    /\ ast \in programs
    /\ apc = "ready"
    /\ aidx = 1
    /\ runs = 0
    /\ scopes = <<SymbolTable(0, "global")>>
    /\ current_scope = 1
    /\ errors = <<>>
    /\ warnings = <<>>
    /\ scope_counter = 0
    /\ success = FALSE
    /\ fatal = NoFatal

\* analyze is entered: self.visit(ast) starts visit_Program's loop
AnalyzeCall ==
    /\ apc \in {"ready", "done"}
    /\ runs < MaxRuns
    /\ apc' = "walk"
    /\ aidx' = 1
    /\ runs' = runs + 1
    /\ fatal' = NoFatal
    /\ UNCHANGED <<ast, scopes, current_scope, errors, warnings, scope_counter, success>>
    /\ UNCHANGED <<scanVars, parseVars>>

\* one iteration of visit_Program's loop: self.visit(stmt)
VisitStatement ==
    /\ apc = "walk"
    /\ fatal = NoFatal
    /\ aidx <= Len(ast)
    /\ LET st == visit(CurrentState, ast[aidx])
       IN /\ scopes' = st.scopes
          /\ current_scope' = st.cur
          /\ errors' = st.errors
          /\ warnings' = st.warnings
          /\ scope_counter' = st.counter
          /\ fatal' = st.fatal
    /\ aidx' = aidx + 1
    /\ UNCHANGED <<ast, apc, runs, success>>
    /\ UNCHANGED <<scanVars, parseVars>>

\* analyze's verdict on the accumulated diagnostics
Passed_m(errs) == errs = <<>> /\ warnings = <<>>
Passed(errs) == errs = <<>>

\* the walk is over: analyze returns not self.errors, or, when a
\* SemanticError was raised, appends it and returns False
AnalyzeReturn ==
    /\ apc = "walk"
    /\ fatal # NoFatal \/ aidx > Len(ast)
    /\ IF fatal # NoFatal
       THEN /\ errors' = Append(errors, fatal)
            /\ success' = FALSE
       ELSE /\ errors' = errors
            /\ success' = Passed(errors)
    /\ apc' = "done"
    /\ UNCHANGED <<ast, aidx, runs, scopes, current_scope, warnings, scope_counter, fatal>>
    /\ UNCHANGED <<scanVars, parseVars>>

SemNext == AnalyzeCall \/ VisitStatement \/ AnalyzeReturn

(***************************************************************************)
(* Specifications                                                          *)
(***************************************************************************)
\* Scanner.__init__ on the empty source
\* Scanner.__init__ on the empty source
ScanIdle == ScannerInit({<<>>})

\* Parser.__init__ on the tokens of the empty source
ParseIdle ==
    /\ ptokens = <<Token(EOF, "", 1, 1)>>
    /\ current = 0
    /\ statements = <<>>
    /\ reported = <<>>
    /\ ppc = "parse"

InitSem == ScanIdle /\ ParseIdle /\ SemInit(SeqsUpTo(GeneralPool, MaxStmts))
InitTypes == ScanIdle /\ ParseIdle /\ SemInit(SeqsUpTo(TypesPool, MaxStmts))
InitArith == ScanIdle /\ ParseIdle /\ SemInit(SeqsUpTo(ArithPool, MaxStmts))
InitScopes == ScanIdle /\ ParseIdle /\ SemInit(SeqsUpTo(ScopePool, MaxStmts))

InitScan == ScannerInit(ScannerInputs) /\ ParseIdle /\ SemInit({<<>>})

InitParse == ScanIdle /\ ParserInit(ParserInputs) /\ SemInit({<<>>})

\* the parser constructed on the tokens of one statement with an expression
InitExpr == ScanIdle /\ ParserInit(ExprInputs) /\ SemInit({<<>>})

SpecScan == InitScan /\ [][ScanNext]_vars
SpecParse == InitParse /\ [][ParseNext]_vars
SpecExpr == InitExpr /\ [][ParseNext]_vars
SpecSem == InitSem /\ [][SemNext]_vars
SpecTypes == InitTypes /\ [][SemNext]_vars
SpecArith == InitArith /\ [][SemNext]_vars
SpecScopes == InitScopes /\ [][SemNext]_vars

(***************************************************************************)
(* Properties of the semantic analyzer                                     *)
(***************************************************************************)
\* a step of visit_Program's loop; the statement it visits is ast[aidx]
IsVisit == apc = "walk" /\ aidx <= Len(ast) /\ aidx' = aidx + 1

\* number of diagnostics of one format in a list
Count(ds, msg) == Cardinality({i \in 1..Len(ds) : ds[i].msg = msg})

\* the type the language gives an expression in the current scope
RECURSIVE ExpectedType(_)
ExpectedType(e) ==
    CASE e.kind = "Literal" -> e.type
      [] e.kind = "Variable" ->
            IF exists(scopes, current_scope, e.name)
            THEN scopes[lookup(scopes, current_scope, e.name)].symbols[e.name].type
            ELSE "ANY"
      [] e.kind = "BinaryOp" /\ e.operator \in ArithOps ->
            IF ExpectedType(e.left) \in Numeric /\ ExpectedType(e.right) \in Numeric
            THEN IF ExpectedType(e.left) = "FLOAT" \/ ExpectedType(e.right) = "FLOAT"
                 THEN "FLOAT" ELSE "INTEGER"
            ELSE "ANY"
      [] e.kind = "BinaryOp" /\ e.operator \in CompareOps \cup LogicOps -> "BOOLEAN"
      [] OTHER -> "ANY"

\* C2: when analyze returns, the result is success iff the error list is
\* empty, whatever the warnings; a caught fatal SemanticError gives failure
\* and is the last entry of the error list.
C2_SuccessIffNoErrors ==
    apc = "done" =>
        /\ success <=> (errors = <<>>)
        /\ fatal # NoFatal => (~success /\ errors # <<>> /\ errors[Len(errors)] = fatal)

C2_Witness == apc = "done" /\ success /\ Len(warnings) >= 2

\* C3: a FunctionCall expression whose callee is declared in no visible
\* scope records exactly one error, "Undefined function".
IsCallStatement(stmt) ==
    /\ stmt.kind \in {"ExpressionStatement", "PrintStatement"}
    /\ stmt.expression.kind = "FunctionCall"

C3_UndefinedCallOneError ==
    [][(IsVisit /\ IsCallStatement(ast[aidx])
        /\ ~exists(scopes, current_scope, ast[aidx].expression.name))
       => errors' = Append(errors, Diag("Undefined function", ast[aidx].expression.name, "", ""))]_vars

\* C4: a VarDeclaration records a redeclaration error iff its name is
\* already defined in the current scope; a redeclaration adds exactly that
\* one error and leaves the symbols alone; a name of an ancestor scope is
\* shadowed in the new scope without any diagnostic.
Redeclared == "Variable already declared in scope"

IsDup(ds, i) == \E j \in 1..(i - 1) : ds[j].name = ds[i].name

DupDiags(ds, scope_name) ==
    LET idx == SelectSeq([i \in 1..Len(ds) |-> i], LAMBDA i : IsDup(ds, i))
    IN [k \in 1..Len(idx) |-> Diag(Redeclared, ds[idx[k]].name, scope_name, "")]

\* a block of declarations whose first declaration of each name has no
\* initializer or a literal of the declared type
IsDeclBlock(stmt) ==
    /\ stmt.kind = "Block"
    /\ stmt.statements # <<>>
    /\ \A i \in 1..Len(stmt.statements) :
          /\ stmt.statements[i].kind = "VarDeclaration"
          /\ ~IsDup(stmt.statements, i) =>
                \/ stmt.statements[i].initializer.kind = "None"
                \/ /\ stmt.statements[i].initializer.kind = "Literal"
                   /\ stmt.statements[i].initializer.type = MapType(stmt.statements[i].var_type)

C4Top(d) ==
    LET local == d.name \in DOMAIN scopes[current_scope].symbols
    IN /\ (Count(errors', Redeclared) = Count(errors, Redeclared) + 1) <=> local
       /\ local => /\ errors' = Append(errors, Diag(Redeclared, d.name,
                                                    scopes[current_scope].scope_name, ""))
                   /\ warnings' = warnings
                   /\ scopes' = scopes
       /\ ~local => /\ Count(errors', Redeclared) = Count(errors, Redeclared)
                    /\ scopes'[current_scope].symbols[d.name] =
                          [type |-> MapType(d.var_type), kind |-> "variable"]

C4Block(b) ==
    LET ds == b.statements
        new == Len(scopes) + 1
    IN /\ Len(scopes') = new
       /\ scopes'[new].parent = current_scope
       /\ errors' = errors \o DupDiags(ds, BlockName(scope_counter + 1))
       /\ warnings' = warnings
       /\ DOMAIN scopes'[new].symbols = {ds[i].name : i \in 1..Len(ds)}
       /\ \A i \in 1..Len(ds) :
             ~IsDup(ds, i) => scopes'[new].symbols[ds[i].name] =
                                 [type |-> MapType(ds[i].var_type), kind |-> "variable"]
       /\ \A s \in 1..Len(scopes) : scopes'[s].symbols = scopes[s].symbols

C4_Redeclaration ==
    [][IsVisit => /\ ast[aidx].kind = "VarDeclaration" => C4Top(ast[aidx])
                  /\ IsDeclBlock(ast[aidx]) => C4Block(ast[aidx])]_vars

C4_Witness ==
    /\ runs = 1 /\ aidx = 3
    /\ ast[1] = VarDeclaration("count", "x", NoneNode)
    /\ ast[2] = Block(<<VarDeclaration("note", "x", NoneNode), VarDeclaration("count", "x", FloatLit)>>)
    /\ errors = <<Diag(Redeclared, "x", "block_1", "")>>
    /\ scopes[1].symbols["x"].type = "INTEGER"
    /\ scopes[2].symbols["x"].type = "STRING"

\* C5: a declaration with an initializer, and an assignment to an existing
\* variable, record exactly one type-mismatch error iff the target and
\* source types are incompatible; compatible means one of them is ANY, they
\* are equal, or the target is FLOAT and the source INTEGER.
SpecCompatible(target, src) ==
    \/ target = "ANY" \/ src = "ANY"
    \/ target = src
    \/ target = "FLOAT" /\ src = "INTEGER"

MismatchOnce(msg, name, target, src) ==
    IF SpecCompatible(target, src)
    THEN Count(errors', msg) = Count(errors, msg)
    ELSE /\ Count(errors', msg) = Count(errors, msg) + 1
         /\ errors'[Len(errors')] = Diag(msg, name, src, target)

C5Decl(d, freshOnly) ==
    (/\ d.kind = "VarDeclaration"
     /\ d.initializer.kind # "None"
     /\ freshOnly => d.name \notin DOMAIN scopes[current_scope].symbols)
    => MismatchOnce("Type mismatch in variable", d.name, MapType(d.var_type),
                    ExpectedType(d.initializer))

C5Assign(a) ==
    (a.kind = "Assignment" /\ exists(scopes, current_scope, a.name))
    => MismatchOnce("Type mismatch in assignment", a.name,
                    scopes[lookup(scopes, current_scope, a.name)].symbols[a.name].type,
                    ExpectedType(a.value))

\* an assignment to an untyped parameter (target ANY) in a function body
C5Param(f) ==
    (/\ f.kind = "FunctionDef"
     /\ f.parameters = <<Parameter("", "p")>>
     /\ Len(f.body.statements) = 1
     /\ f.body.statements[1].kind = "Assignment"
     /\ f.body.statements[1].name = "p")
    => Count(errors', "Type mismatch in assignment") = Count(errors, "Type mismatch in assignment")

\* C5 (as stated): every declaration with an initializer
C5_MismatchIffIncompatible_Original ==
    [][IsVisit => /\ C5Decl(ast[aidx], FALSE)
                  /\ C5Assign(ast[aidx])
                  /\ C5Param(ast[aidx])]_vars

\* C5 (amended): a declaration with an initializer whose name is not already
\* defined in the current scope, and an assignment to an existing variable,
\* record exactly one type-mismatch error iff the types are incompatible.
C5_MismatchIffIncompatible ==
    [][IsVisit => /\ C5Decl(ast[aidx], TRUE)
                  /\ C5Assign(ast[aidx])
                  /\ C5Param(ast[aidx])]_vars

C5_Witness ==
    /\ runs = 1 /\ aidx = 3
    /\ ast[1] = VarDeclaration("count", "x", FloatLit)
    /\ ast[2] = Assignment("x", FloatLit)
    /\ errors = <<Diag("Type mismatch in variable", "x", "FLOAT", "INTEGER"),
                  Diag("Type mismatch in assignment", "x", "FLOAT", "INTEGER")>>

\* C6: arithmetic on two numeric operands infers FLOAT iff an operand is
\* FLOAT, else INTEGER, and records no diagnostic of its own; the inferred
\* type is the one named in the condition warning.
ConditionWarning(stmt) ==
    IF stmt.kind = "IfStatement" THEN "Condition in 'taste' should be BOOLEAN"
    ELSE "Loop condition in 'stir' should be BOOLEAN"

IsNumericArith(e) ==
    /\ e.kind = "BinaryOp"
    /\ e.operator \in ArithOps
    /\ ExpectedType(e.left) \in Numeric
    /\ ExpectedType(e.right) \in Numeric

C6_ArithmeticType ==
    [][(IsVisit /\ ast[aidx].kind \in {"IfStatement", "WhileStatement"}
        /\ IsNumericArith(ast[aidx].condition))
       => /\ errors' = errors
          /\ warnings' = Append(warnings,
                Diag(ConditionWarning(ast[aidx]), "",
                     IF "FLOAT" \in {ExpectedType(ast[aidx].condition.left),
                                     ExpectedType(ast[aidx].condition.right)}
                     THEN "FLOAT" ELSE "INTEGER", ""))]_vars

C6_Witness ==
    /\ runs = 1 /\ aidx = 3
    /\ ast[1] = IfStatement(BinaryOp(IntLit, "%", FloatLit), Block(<<>>), NoneNode)
    /\ ast[2] = IfStatement(BinaryOp(IntLit, "/", IntLit), Block(<<>>), NoneNode)
    /\ errors = <<>>
    /\ warnings = <<Diag("Condition in 'taste' should be BOOLEAN", "", "FLOAT", ""),
                    Diag("Condition in 'taste' should be BOOLEAN", "", "INTEGER", "")>>

\* C7: a taste / stir condition whose type is neither BOOLEAN nor ANY adds
\* exactly one warning and no error; a BOOLEAN or ANY condition adds no
\* condition warning; either way the branches are analysed.
ProbeErrors(stmt) ==
    LET e == <<Diag("Undefined variable", "u", "", "")>>
        branches == IF stmt.kind = "IfStatement" THEN <<stmt.then_stmt, stmt.else_stmt>>
                    ELSE <<stmt.body>>
    IN (IF branches[1] = Probe THEN e ELSE <<>>)
       \o (IF Len(branches) = 2 /\ branches[2] = Probe THEN e ELSE <<>>)

\* the errors that inferring a condition's type records
ConditionErrors(c) ==
    IF c.kind = "Variable" /\ ~exists(scopes, current_scope, c.name)
    THEN <<Diag("Undefined variable", c.name, "", "")>>
    ELSE <<>>

IsSimpleCondition(c) ==
    \/ c.kind \in {"Literal", "Variable", "FunctionCall"}
    \/ c.kind = "BinaryOp" /\ c.left.kind = "Literal" /\ c.right.kind = "Literal"
       /\ (c.operator \in ArithOps => IsNumericArith(c))

C7_ConditionWarning ==
    [][(IsVisit /\ ast[aidx].kind \in {"IfStatement", "WhileStatement"}
        /\ IsSimpleCondition(ast[aidx].condition))
       => LET stmt == ast[aidx]
              T == ExpectedType(stmt.condition)
          IN /\ errors' = errors \o ConditionErrors(stmt.condition) \o ProbeErrors(stmt)
             /\ T \notin {"BOOLEAN", "ANY"} =>
                   warnings' = Append(warnings, Diag(ConditionWarning(stmt), "", T, ""))
             /\ T \in {"BOOLEAN", "ANY"} =>
                   Count(warnings', ConditionWarning(stmt)) = Count(warnings, ConditionWarning(stmt))]_vars

C7_Witness ==
    /\ runs = 1 /\ aidx = 2
    /\ ast[1] = IfStatement(BinaryOp(IntLit, "+", FloatLit), Probe, NoneNode)
    /\ errors = <<Diag("Undefined variable", "u", "", "")>>
    /\ warnings = <<Diag("Condition in 'taste' should be BOOLEAN", "", "FLOAT", "")>>

\* a SemanticAnalyzer as __init__ leaves it
Constructed == AState(<<SymbolTable(0, "global")>>, 1, <<>>, <<>>, 0, NoFatal)

\* the walk of a program by a newly constructed analyzer
FreshRun(program) == VisitAll(Constructed, program, 1)

\* the first analyze of an analyzer is the walk of a new analyzer
FirstRunIsFresh ==
    (apc = "done" /\ runs = 1) =>
        /\ errors = FreshRun(ast).errors
        /\ warnings = FreshRun(ast).warnings
        /\ success = Passed(FreshRun(ast).errors)

\* C14: a second analyze of the same Program by the same analyzer returns
\* the success value and the error and warning lists of the first, nothing
\* of the first invocation being visible to the second.
C14_SecondRunSameResult ==
    (apc = "done" /\ runs = 2) =>
        /\ errors = FreshRun(ast).errors
        /\ warnings = FreshRun(ast).warnings
        /\ success = Passed(FreshRun(ast).errors)

\* what the code does: the second walk starts from the scopes, errors and
\* warnings the first one left
SecondRunContinuesFirst ==
    (apc = "done" /\ runs = 2) =>
        /\ errors = VisitAll(FreshRun(ast), ast, 1).errors
        /\ warnings = VisitAll(FreshRun(ast), ast, 1).warnings

(***************************************************************************)
(* Properties of the scanner                                               *)
(***************************************************************************)
\* character i lies in a comment: a # precedes it on its line
InComment(src, i) == \E j \in 1..i : src[j] = "#" /\ \A k \in j..i : src[k] # "\n"

\* the source is whitespace and comments only
OnlyBlank(src) == \A i \in 1..Len(src) : src[i] \in Space \/ InComment(src, i)

\* the source has no string literal: no quote outside a comment
NoStringLiteral(src) == \A i \in 1..Len(src) : src[i] = "\"" => InComment(src, i)

\* the last character of the line that holds character i
LineEnd(src, i) ==
    CHOOSE j \in i..Len(src) :
        /\ \A k \in i..j : src[k] # "\n"
        /\ j = Len(src) \/ src[j + 1] = "\n"

\* the comments of a source without string literals, each from the first #
\* of its line to the end of the line, as the tokens that would carry them
RECURSIVE CommentsFrom(_, _, _, _)
CommentsFrom(src, i, ln, col) ==
    IF i > Len(src) THEN <<>>
    ELSE IF src[i] = "\n" THEN CommentsFrom(src, i + 1, ln + 1, 1)
    ELSE IF src[i] = "#"
    THEN <<Token(COMMENT, SubSeq(src, i, LineEnd(src, i)), ln, col)>>
         \o CommentsFrom(src, LineEnd(src, i) + 1, ln, col + (LineEnd(src, i) - i + 1))
    ELSE CommentsFrom(src, i + 1, ln, col + 1)

CommentsOf(src) == CommentsFrom(src, 1, 1, 1)

\* a token that carries a comment (the keyword note shares the kind)
IsComment(t) == t.type = COMMENT /\ t.value # <<>> /\ t.value[1] = "#"

RECURSIVE Join(_)
Join(toks) ==
    IF toks = <<>> THEN <<>>
    ELSE IF Len(toks) = 1 THEN toks[1].value
    ELSE toks[1].value \o <<" ">> \o Join(Tail(toks))

RECURSIVE Kinds(_)
Kinds(toks) ==
    IF toks = <<>> THEN <<>>
    ELSE IF toks[1].type = COMMENT THEN Kinds(Tail(toks))
    ELSE <<toks[1].type>> \o Kinds(Tail(toks))

RoundTrip(toks) ==
    /\ Tokenize(Join(toks)).st = "ok"
    /\ Kinds(Tokenize(Join(toks)).tokens) = Kinds(toks)

\* C10: for every source that tokenizes without error, tokenizing the
\* tokens' stored texts joined with single spaces gives the same sequence
\* of token kinds, COMMENT tokens ignored.
C10_RoundTrip == spc = "done" => RoundTrip(tokens)

\* the round trip of sources that hold no comment
C10_RoundTripWithoutComments ==
    (spc = "done" /\ \A i \in 1..Len(source) : source[i] # "#") => RoundTrip(tokens)

\* the round trip of sources that hold neither a comment nor an escape
RoundTripOfPlainSources ==
    (spc = "done" /\ \A i \in 1..Len(source) : source[i] \notin {"#", "\\"}) => RoundTrip(tokens)

\* the line of character k of a source: 1 plus the newlines before it
LineOf(src, k) == 1 + Cardinality({i \in 1..(k - 1) : src[i] = "\n"})

\* the column of character k: 1 plus the characters between the preceding
\* newline, or the start of the source, and character k
ColumnOf(src, k) ==
    LET before == {i \in 1..(k - 1) : src[i] = "\n"}
        last == IF before = {} THEN 0 ELSE CHOOSE i \in before : \A j \in before : j <= i
    IN  k - last

\* C11: a returned token sequence holds exactly one EOF token, it is the
\* last element, and it has the line and column reached after the last
\* character of the source.
C11_OneEOFLast ==
    spc = "done" =>
        /\ tokens # <<>>
        /\ {i \in 1..Len(tokens) : tokens[i].type = EOF} = {Len(tokens)}
        /\ tokens[Len(tokens)].line = LineOf(source, Len(source) + 1)
        /\ tokens[Len(tokens)].column = ColumnOf(source, Len(source) + 1)
        /\ tokens[Len(tokens)].line = line
        /\ tokens[Len(tokens)].column = column

C11_Witness ==
    /\ spc = "done"
    /\ Len(tokens) >= 3
    /\ tokens[Len(tokens)].line > 1
    /\ tokens[Len(tokens)].column > 1

\* C12: an unterminated string literal fails with a LexicalError at the
\* line and column of the string's opening quote.
C12_UnterminatedAtOpeningQuote ==
    [][(spc = "scan" /\ current_char(source, Here) = "\"" /\ spc' = "LexicalError")
       => /\ raised'.message = "Unterminated string literal"
          /\ raised'.line = line
          /\ raised'.column = column]_vars

\* what the code does: the error names the place where the newline or the
\* end of the input was found
UnterminatedAtCurrentPosition ==
    [][(spc = "scan" /\ current_char(source, Here) = "\"" /\ spc' = "LexicalError")
       => /\ raised'.message = "Unterminated string literal"
          /\ raised'.line = LineOf(source, position' + 1)
          /\ raised'.column = ColumnOf(source, position' + 1)
          /\ position' > position
          /\ position' = Len(source) \/ source[position' + 1] = "\n"]_vars

\* C13: every token records the position of its first character, also a
\* token that follows a comment line (the end-of-file token: the position
\* after the last character).
C13_TokenPosition ==
    [][Len(tokens') > Len(tokens)
       => /\ Len(tokens') = Len(tokens) + 1
          /\ tokens'[Len(tokens')].line = LineOf(source, position + 1)
          /\ tokens'[Len(tokens')].column = ColumnOf(source, position + 1)
          /\ SubSeq(tokens', 1, Len(tokens)) = tokens]_vars

C13_Witness ==
    /\ spc = "done"
    /\ \E i \in 1..(Len(tokens) - 2) :
          /\ IsComment(tokens[i])
          /\ tokens[i + 1].line = tokens[i].line + 1
          /\ tokens[i + 1].column > 1

(***************************************************************************)
(* Properties of the parser                                                *)
(***************************************************************************)
\* C1: no exception leaves parse; whatever the tokens, a statement that
\* raises a ParseError is dropped and parse returns a Program.
C1_ParseReturnsProgram == ppc \in {"parse", "done"}

\* no ParseError leaves parse_statement
NoParseErrorPropagates == ppc # "ParseError"

\* C8: a well-formed function definition parses to exactly one FunctionDef
\* of that name whose body holds one node per statement, of the statement's
\* kind and in source order, and nothing is raised or reported.
FunctionParsed(fn) ==
    /\ ppc = "done"
    /\ reported = <<>>
    /\ Len(statements) = 1
    /\ statements[1].kind = "FunctionDef"
    /\ statements[1].name = fn.name
    /\ statements[1].body.kind = "Block"
    /\ Len(statements[1].body.statements) = Len(fn.body)
    /\ \A i \in 1..Len(fn.body) : statements[1].body.statements[i].kind = fn.body[i].kind

C8_WellFormedFunction ==
    (ptokens[1].type = RECIPE /\ ppc # "parse")
    => \A fn \in FnDescs : ptokens = FnTokens(fn) => FunctionParsed(fn)

\* the same, for the parameter types parse_parameter accepts
C8_AcceptedParameterTypes ==
    (ptokens[1].type = RECIPE /\ ppc # "parse")
    => \A fn \in FnDescs :
          (ptokens = FnTokens(fn) /\ \A i \in 1..Len(fn.params) : fn.params[i][1] # NOTE)
          => FunctionParsed(fn)

\* a call of parse_statement at any cursor that is not at end-of-file leaves
\* the cursor at least one token further, and within the token list
StatementAdvances ==
    (ppc = "parse" /\ current = 0 /\ statements = <<>>) =>
        \A c \in 0..Len(ptokens) :
            ~at_end(ptokens, c) =>
                /\ parse_statement(ptokens, c, <<>>).cur > c
                /\ parse_statement(ptokens, c, <<>>).cur <= Len(ptokens)

\* a pass of parse's loop before end-of-file moves the cursor forward,
\* and at end-of-file the loop ends
LoopPassAdvances ==
    ppc = "parse" =>
        IF at_end(ptokens, current)
        THEN ppc' = "done"
        ELSE current' > current /\ current' <= Len(ptokens)

\* C15: parse terminates on every token sequence: each parse_statement
\* called before end-of-file moves the cursor forward, whichever path it
\* takes, so the tokens left decrease with every pass of the loops of parse
\* and parse_block, and the loops stop at end-of-file.
C15_ParseTerminates == []StatementAdvances /\ [][LoopPassAdvances]_vars

\* a parse that went through the error path, the skip path and the normal
\* path has ended
C15_Witness ==
    /\ ppc = "done"
    /\ reported # <<>>
    /\ statements # <<>>
    /\ current = Len(ptokens) - 1
    /\ Len(ptokens) > MaxTokens

\* the names of TokenType, in the order of khamseena_token.py
KeywordKinds == <<BREW, RECIPE, COUNT, MEASURE, NOTE, FLAVOR, SWEET, SOUR, SERVE, POUR, TASTE,
                  RETASTE, STIR, MIX, STOP, SKIP, DELIVER, FETCH>>
OtherKinds == <<PLUS, MINUS, MULTIPLY, DIVIDE, MODULO, ASSIGN, EQUAL, NOT_EQUAL, GREATER, LESS,
                GREATER_EQUAL, LESS_EQUAL, AND, OR, NOT, LPAREN, RPAREN, LBRACE, RBRACE,
                SEMICOLON, COMMA, INTEGER, FLOAT, STRING_, IDENTIFIER, EOF, COMMENT>>
TokenKinds == KeywordKinds \o OtherKinds

\* the pairs of different names of TokenType that hold the same kind
SameKind == {p \in (1..Len(TokenKinds)) \X (1..Len(TokenKinds)) :
                p[1] < p[2] /\ TokenKinds[p[1]] = TokenKinds[p[2]]}

\* C16: the token kinds are pairwise distinct, no keyword kind is the kind
\* of COMMENT or of a literal, and so the statement dispatch never takes a
\* comment or a literal for a type keyword: a declaration's type is the
\* text of a type keyword.
C16_DistinctKinds ==
    /\ SameKind = {}
    /\ \A i \in 1..Len(KeywordKinds) : KeywordKinds[i] \notin {COMMENT, FLOAT, INTEGER, STRING_}
    /\ \A i \in 1..Len(statements) :
          statements[i].kind = "VarDeclaration" => statements[i].var_type \in TypeKeywords

\* what the code has: NOTE and COMMENT are one kind, MEASURE and FLOAT are
\* one kind, and all other kinds differ
SharedKinds ==
    /\ NOTE = COMMENT
    /\ MEASURE = FLOAT
    /\ Cardinality(SameKind) = 2

\* the dispatch alone: the declaration branch takes a comment token
DispatchKeepsKindsApart ==
    \A i \in 1..Len(statements) :
        statements[i].kind = "VarDeclaration" => statements[i].var_type \in TypeKeywords

\* a token that carries a comment; the keyword note has the same kind
IsCommentToken(t) == t.type = COMMENT /\ t.value # "note"

\* C17: at a COMMENT token parse_statement consumes exactly that token and
\* returns a CommentStatement with the comment's text; nothing is raised or
\* reported.
C17_CommentStatement ==
    [][(ppc = "parse" /\ IsCommentToken(Peek(ptokens, current)))
       => /\ current' = current + 1
          /\ statements' = Append(statements, CommentStatement(Peek(ptokens, current).value))
          /\ reported' = reported
          /\ ppc' = "parse"]_vars

\* what the code does: the declaration branch comes first and takes the
\* comment's text for the type keyword of a declaration
CommentTakenForDeclaration ==
    [][(ppc = "parse" /\ IsCommentToken(Peek(ptokens, current)))
       => \/ /\ Len(statements') = Len(statements) + 1
             /\ statements'[Len(statements')].kind = "VarDeclaration"
             /\ statements'[Len(statements')].var_type = Peek(ptokens, current).value
          \/ /\ statements' = statements
             /\ Len(reported') = Len(reported) + 1]_vars

\* the token list of  fetch IDENT ;
IsFetchProgram(toks) ==
    /\ Len(toks) = 4
    /\ toks[1].type = FETCH
    /\ toks[2].type = IDENTIFIER
    /\ toks[3].type = SEMICOLON
    /\ toks[4].type = EOF

\* C18: for the tokens of  fetch IDENT ;  parse returns a Program of one
\* FetchStatement whose module name is the identifier's text, and nothing
\* is raised.
C18_FetchStatement ==
    (IsFetchProgram(ptokens) /\ current > 0) =>
        /\ ppc \in {"parse", "done"}
        /\ statements = <<[kind |-> "FetchStatement", module_name |-> ptokens[2].value]>>
        /\ reported = <<>>

\* what the code does: the statement is scanned to its end and then the
\* NameError of the undefined class leaves parse
FetchRaisesNameError ==
    (IsFetchProgram(ptokens) /\ current > 0) =>
        /\ ppc = "NameError"
        /\ current = 3
        /\ statements = <<>>

\* the texts of the errors that report a missing ';'
SemicolonMessages ==
    {"Expected ';' after variable declaration", "Expected ';' after assignment",
     "Expected ';' after print statement", "Expected ';' after input statement",
     "Expected ';' after return statement", "Expected ';' after fetch statement",
     "Expected ';' after expression"}

\* the loop pass reported that the statement starting at the current token
\* has no ';'
MissingSemicolon ==
    /\ ppc = "parse"
    /\ Len(reported') = Len(reported) + 1
    /\ reported'[Len(reported')].msg \in SemicolonMessages

\* C19: the error for a missing ';' after a declaration, assignment, print,
\* input, return, fetch or bare expression statement names the line of the
\* statement's first token, also when the statement runs over several
\* lines.
C19_MissingSemicolonLine ==
    [][(MissingSemicolon /\ Peek(ptokens, current).value \in {"count", "serve", "fetch", "x"})
       => reported'[Len(reported')].line = Peek(ptokens, current).line]_vars

\* the same for print and assignment only, where the code keeps the line of
\* the first token
MissingSemicolonLineOfPrintAndAssignment ==
    [][(/\ MissingSemicolon
        /\ \/ Peek(ptokens, current).type = SERVE
           \/ Peek(ptokens, current).type = IDENTIFIER /\ Peek(ptokens, current + 1).type = ASSIGN)
       => reported'[Len(reported')].line = Peek(ptokens, current).line]_vars

\* the node a branch stands for: the block, or the single statement itself
BranchNode(b) ==
    IF b.block THEN Block(<<PrintStatement(Variable("x"))>>) ELSE PrintStatement(Variable("x"))

ElseNode(e) ==
    IF e.else_kind = "none" THEN NoneNode
    ELSE IF e.else_kind = "branch" THEN BranchNode(e)
    ELSE IfStatement(Variable("c2"), BranchNode(e), NoneNode)

ControlNode(d) ==
    IF d.head[1] = TASTE
    THEN IfStatement(Variable("c"), BranchNode(d.branch), ElseNode(d.else_part))
    ELSE WhileStatement(Variable("c"), BranchNode(d.branch))

\* every branch of the statement is a block, and retaste is not followed by taste
AllBlocks(d) == d.branch.block /\ d.else_part.block /\ d.else_part.else_kind # "taste"

\* C20: the branches of taste and the body of stir may be any single
\* statement, not only a block: the parsed program is the one IfStatement or
\* WhileStatement with that statement as its branch, an else-if chain gives
\* an IfStatement as else-statement, and no error is reported.
C20_AnyStatementBranch ==
    \A d \in ControlDescs :
        (ptokens = ControlTokens(d) /\ ppc = "done")
            => statements = <<ControlNode(d)>> /\ reported = <<>>

\* what the parser does: a branch that does not start with '{' is a parse
\* error and the taste or stir statement is not built; only with blocks
\* everywhere is it built
BranchMustBeBlock ==
    \A d \in ControlDescs :
        (ptokens = ControlTokens(d) /\ ppc = "done")
            => IF AllBlocks(d)
               THEN statements = <<ControlNode(d)>> /\ reported = <<>>
               ELSE /\ \A i \in 1..Len(statements) : statements[i] # ControlNode(d)
                    /\ Len(reported) = 1
                    /\ reported[1].msg \in {"Expected '{' in taste statement body",
                                            "Expected '{' in retaste statement body",
                                            "Expected '{' in stir statement body"}

\* the tokens synchronize stops in front of
ConstructStarts == {RECIPE, SERVE, COUNT}

\* the cursor recovery reaches when discarding starts at cursor cur: just
\* after the first ';', or on the first construct-starting token, or at the end
RECURSIVE ResumePoint(_, _)
ResumePoint(toks, cur) ==
    IF at_end(toks, cur) THEN cur
    ELSE IF Peek(toks, cur).type \in ConstructStarts THEN cur
    ELSE IF Peek(toks, cur).type = SEMICOLON THEN cur + 1
    ELSE ResumePoint(toks, cur + 1)

\* the top-level statement at the cursor raises a ParseError
StatementFails ==
    /\ ppc = "parse"
    /\ ~at_end(ptokens, current)
    /\ StatementBody(ptokens, current, reported).st = "ParseError"

\* the token where that error was detected
ErrorCursor == StatementBody(ptokens, current, reported).cur

\* C21: after a parse error, recovery discards tokens from the error token on
\* and stops just after the first ';' or on the first token that starts a
\* function, variable or print construct; such a token is never discarded, so
\* an error token that starts a construct is where parsing resumes.
C21_SynchronizeKeepsConstructStart ==
    [][StatementFails => current' = ResumePoint(ptokens, ErrorCursor)]_vars

\* what synchronize does: the error token is always discarded, also when it
\* starts a construct, and discarding goes on from the token after it
SynchronizeSkipsErrorToken ==
    [][StatementFails =>
           current' = IF Peek(ptokens, ErrorCursor).type \in ConstructStarts
                      THEN ResumePoint(ptokens, ErrorCursor + 1)
                      ELSE ResumePoint(ptokens, ErrorCursor)]_vars

\* the block of the description without its malformed statement
SurvivingBlock(d) ==
    Block((IF d.before THEN <<PrintStatement(Variable("a"))>> ELSE <<>>)
          \o (IF d.after THEN <<Assignment("y", Literal("2", "INTEGER"))>> ELSE <<>>))

OwnerNode(d) ==
    IF d.head.owner = "FunctionDef" THEN FunctionDef("f", <<>>, SurvivingBlock(d))
    ELSE IF d.head.owner = "IfStatement" THEN IfStatement(Variable("c"), SurvivingBlock(d), NoneNode)
    ELSE IF d.head.owner = "WhileStatement" THEN WhileStatement(Variable("c"), SurvivingBlock(d))
    ELSE SurvivingBlock(d)

\* the program in which only the malformed statement is missing
OnlyBadDropped(d) ==
    <<OwnerNode(d)>> \o (IF d.following THEN <<PrintStatement(Variable("z"))>> ELSE <<>>)

\* C22: a parse error in one statement of a block drops only that statement:
\* the closing '}' is not consumed by recovery, the Block and the FunctionDef,
\* IfStatement or WhileStatement that owns it are produced with the other
\* statements of the block in order, and the statement after the block stays
\* outside it.
C22_BlockSurvivesError ==
    \A d \in BlockErrorDescs :
        (ptokens = BlockErrorTokens(d) /\ ppc = "done") => statements = OnlyBadDropped(d)

\* what the parser does: only a malformed statement that still has its own
\* ';' is dropped alone; without one, recovery runs over the next statement
\* or over the closing '}'
BlockSurvivesErrorWithSemicolon ==
    \A d \in BlockErrorDescs :
        (ptokens = BlockErrorTokens(d) /\ ppc = "done")
            => (statements = OnlyBadDropped(d) <=> d.bad.semicolon)

(***************************************************************************)
(* Properties of expression parsing                                        *)
(***************************************************************************)
\* the precedence level of a binary operator, lowest first
PrecedenceLevel(op) ==
    IF op = "||" THEN 1
    ELSE IF op = "&&" THEN 2
    ELSE IF op \in {"==", "!="} THEN 3
    ELSE IF op \in {">", "<", ">=", "<="} THEN 4
    ELSE IF op \in {"+", "-"} THEN 5
    ELSE 6

\* a op1 b op2 c grouped by precedence, equal levels to the left
Grouped(op1, op2) ==
    IF PrecedenceLevel(op2) > PrecedenceLevel(op1)
    THEN BinaryOp(Variable("a"), op1, BinaryOp(Variable("b"), op2, Variable("c")))
    ELSE BinaryOp(BinaryOp(Variable("a"), op1, Variable("b")), op2, Variable("c"))

\* the statement parse returned is serve of expression e, without an error
Serves(e) == ppc = "done" /\ statements = <<PrintStatement(e)>> /\ reported = <<>>

\* C23: binary expressions are parsed by precedence and left associativity,
\* levels from lowest to highest ||, &&, ==/!=, comparisons, +/-, */ /%:
\* a op1 b op2 c groups to the left unless op2's level is higher than op1's,
\* and a unary - or ! binds tighter than every binary operator.
C23_PrecedenceAndAssociativity ==
    ppc = "done" =>
        /\ \A op1 \in BinaryOperators, op2 \in BinaryOperators :
               ptokens = PrecedenceTokens(op1, op2) => Serves(Grouped(op1[2], op2[2]))
        /\ \A u \in UnaryOperators, op \in BinaryOperators :
               /\ ptokens = UnaryTokens(u, op, TRUE)
                      => Serves(BinaryOp(UnaryOp(u[2], Variable("a")), op[2], Variable("b")))
               /\ ptokens = UnaryTokens(u, op, FALSE)
                      => Serves(BinaryOp(Variable("a"), op[2], UnaryOp(u[2], Variable("b"))))

\* a + b * c has been parsed, the product being the right operand of +
C23_Witness ==
    /\ ppc = "done"
    /\ ptokens = PrecedenceTokens(K(PLUS, "+"), K(MULTIPLY, "*"))
    /\ Len(statements) = 1
    /\ statements[1].expression.operator = "+"
    /\ statements[1].expression.right.kind = "BinaryOp"

\* the one statement was rejected with the ParseError msg and nothing else
Rejected(msg) ==
    ppc = "done" /\ statements = <<>> /\ Len(reported) = 1 /\ reported[1].msg = msg

\* C24 as stated: a FunctionCall is produced only when the callee is a bare
\* identifier token directly followed by '('; an argument list after any
\* other primary form, a literal or a parenthesised expression including a
\* parenthesised identifier, raises "Can only call functions".
C24_OnlyBareIdentifierCalls_Original ==
    \A callee \in Callees, args \in ArgLists :
        (ptokens = CallTokens(callee, args) /\ ppc = "done")
            => IF callee.form = "identifier"
               THEN Serves(FunctionCall("f", args.nodes))
               ELSE Rejected("Can only call functions")

\* C24: a FunctionCall is produced only when the primary before '(' is a
\* Variable, an identifier bare or enclosed in parentheses; an argument list
\* after a literal or after any other parenthesised expression raises
\* "Can only call functions".
C24_OnlyVariableCalls ==
    \A callee \in Callees, args \in ArgLists :
        (ptokens = CallTokens(callee, args) /\ ppc = "done")
            => IF callee.form \in {"identifier", "parenthesised identifier"}
               THEN Serves(FunctionCall("f", args.nodes))
               ELSE Rejected("Can only call functions")

\* serve 1(1); has been rejected
C24_Witness ==
    /\ ptokens = CallTokens([toks |-> <<K(INTEGER, "1")>>, form |-> "literal"],
                            [toks |-> <<K(INTEGER, "1")>>, nodes |-> <<Literal("1", "INTEGER")>>])
    /\ Rejected("Can only call functions")

\* the forms of token parse_primary is to accept on their own
PrimaryForms == {"INTEGER", "FLOAT", "STRING", "BOOLEAN", "identifier"}

\* the node of an accepted token
PrimaryNode(c) ==
    IF c.form = "identifier" THEN Variable(c.tok[2]) ELSE Literal(c.tok[2], c.form)

\* C25: parse_primary accepts exactly an integer, float or string literal,
\* sweet, sour, an identifier or a parenthesised expression; on any other
\* token (a keyword other than sweet and sour, an operator, a delimiter
\* other than '(', a comment, the end of file) it raises "Expected
\* expression" and consumes no token.
C25_PrimaryAcceptsExactly ==
    \A c \in PrimaryCandidates :
        ptokens = PrimaryTokens(c)
            => IF c.form \in PrimaryForms
               THEN /\ parse_primary(ptokens, 1) = Ok(PrimaryNode(c), 2)
                    /\ ppc = "done" => Serves(PrimaryNode(c))
               ELSE /\ parse_primary(ptokens, 1) = Error(ptokens, 1, "Expected expression")
                    /\ ppc = "done" => Rejected("Expected expression")

\* what parse_primary does: the keyword measure has the kind of a float
\* literal and is accepted as one; every other token is treated as stated
MeasureIsAFloatLiteral ==
    \A c \in PrimaryCandidates :
        ptokens = PrimaryTokens(c)
            => IF c.tok = K(MEASURE, "measure")
               THEN /\ parse_primary(ptokens, 1) = Ok(Literal("measure", "FLOAT"), 2)
                    /\ ppc = "done" => Serves(Literal("measure", "FLOAT"))
               ELSE IF c.form \in PrimaryForms
               THEN /\ parse_primary(ptokens, 1) = Ok(PrimaryNode(c), 2)
                    /\ ppc = "done" => Serves(PrimaryNode(c))
               ELSE /\ parse_primary(ptokens, 1) = Error(ptokens, 1, "Expected expression")
                    /\ ppc = "done" => Rejected("Expected expression")

\* C26: a statement that begins with an identifier is an Assignment when the
\* next token is '=', and otherwise an ExpressionStatement holding the whole
\* expression from the identifier up to the ';': the call statement f(a);
\* gives ExpressionStatement(FunctionCall(f, [a])) and no parse error.
C26_IdentifierStatement ==
    \A d \in IdentifierStmts :
        (ptokens = IdentifierTokens(d) /\ ppc = "done")
            => statements = <<d.node>> /\ reported = <<>>

\* what the parser does: after an identifier that is not followed by '='
\* only ';' is accepted, so the only expression statement is a lone
\* identifier, and a call or an operator after it is a parse error
ExpressionStatementIsLoneIdentifier ==
    \A d \in IdentifierStmts :
        (ptokens = IdentifierTokens(d) /\ ppc = "done")
            => IF d.form = "expression"
               THEN Rejected("Expected ';' after expression")
               ELSE statements = <<d.node>> /\ reported = <<>>

\* the cursor of the first parameter in the tokens of a function: just
\* after the first '('
FirstParameter(toks) ==
    CHOOSE c \in 1..Len(toks) :
        toks[c].type = LPAREN /\ \A k \in 1..(c - 1) : toks[k].type # LPAREN

\* the first parameter of a non-empty parameter list is written with a type
Typed(params) == params[1][1] # IDENTIFIER

\* the Parameter a well-formed first parameter at cursor cur stands for, and
\* the cursor after it
ParameterRead(params, cur) ==
    IF Typed(params) THEN Ok(Parameter(params[1][2], params[2][2]), cur + Len(<<params[1], params[2]>>))
    ELSE Ok(Parameter("", params[1][2]), cur + Len(<<params[1]>>))

\* C27: parse_parameter accepts a parameter written with any of the four type
\* keywords count, measure, note, flavor and an identifier, recording the
\* keyword as the type, and a parameter written as an identifier alone,
\* recording an empty type; none of these forms raises a ParseError.
C27_ParameterForms ==
    \A fn \in FnDescs :
        (ptokens = FnTokens(fn) /\ fn.params # <<>>)
            => parse_parameter(ptokens, FirstParameter(ptokens))
                   = ParameterRead(fn.params, FirstParameter(ptokens))

\* what parse_parameter does: count, measure and flavor are taken as a type,
\* note is not and is rejected where the parameter's name is expected
NoteParameterRejected ==
    \A fn \in FnDescs :
        (ptokens = FnTokens(fn) /\ fn.params # <<>>)
            => parse_parameter(ptokens, FirstParameter(ptokens))
                   = IF fn.params[1][1] = NOTE
                     THEN Error(ptokens, FirstParameter(ptokens), "Expected parameter name")
                     ELSE ParameterRead(fn.params, FirstParameter(ptokens))

(***************************************************************************)
(* Properties of the analyzer's expression typing and scopes               *)
(***************************************************************************)
\* an expression is a variable no scope visible from the current one declares
IsUndeclared(e) == e.kind = "Variable" /\ ~exists(scopes, current_scope, e.name)

IsNumericLiteral(e) == e.kind = "Literal" /\ e.type \in Numeric

\* arithmetic or unary minus whose only operand that is not numeric is an
\* undeclared variable
UndeclaredOperand(e) ==
    \/ /\ e.kind = "BinaryOp"
       /\ e.operator \in ArithOps
       /\ \/ IsUndeclared(e.left) /\ IsNumericLiteral(e.right)
          \/ IsNumericLiteral(e.left) /\ IsUndeclared(e.right)
    \/ /\ e.kind = "UnaryOp"
       /\ e.operator = "-"
       /\ IsUndeclared(e.operand)

\* the undeclared variable of such an expression
UndeclaredName(e) ==
    IF e.kind = "Variable" THEN e.name
    ELSE IF e.kind = "UnaryOp" THEN e.operand.name
    ELSE IF e.left.kind = "Variable" THEN e.left.name
    ELSE e.right.name

\* the error get_expression_type records for the operator of such an expression
OperandError(e) ==
    IF e.kind = "UnaryOp" THEN Diag("Cannot apply unary '-'", "", "ANY", "")
    ELSE Diag("Invalid operands", e.operator,
              IF e.left.kind = "Variable" THEN "ANY" ELSE e.left.type,
              IF e.right.kind = "Variable" THEN "ANY" ELSE e.right.type)

\* a step of the walk visits serve e
VisitsPrint == IsVisit /\ ast[aidx].kind = "PrintStatement"

\* C28: each use of an undeclared variable in an expression adds exactly one
\* error, "Undefined variable", and gives the operand type ANY, which causes
\* no further error: arithmetic or unary minus on it records no operand-type
\* error.
C28_UndeclaredDoesNotCascade ==
    [][(VisitsPrint
        /\ (IsUndeclared(ast[aidx].expression) \/ UndeclaredOperand(ast[aidx].expression)))
       => /\ errors' = Append(errors, Diag("Undefined variable",
                                           UndeclaredName(ast[aidx].expression), "", ""))
          /\ warnings' = warnings]_vars

\* what the analyzer does: the undeclared variable alone adds the one error;
\* as an operand of arithmetic or of unary minus its type ANY is not numeric
\* and the operator adds a second error
UndeclaredOperandCascades ==
    [][(VisitsPrint
        /\ (IsUndeclared(ast[aidx].expression) \/ UndeclaredOperand(ast[aidx].expression)))
       => /\ errors' = errors
                       \o <<Diag("Undefined variable", UndeclaredName(ast[aidx].expression), "", "")>>
                       \o (IF UndeclaredOperand(ast[aidx].expression)
                           THEN <<OperandError(ast[aidx].expression)>> ELSE <<>>)
          /\ warnings' = warnings]_vars

\* the scopes reached from scope s through children links, s included
RECURSIVE Descendants(_, _)
Descendants(sc, s) ==
    {s} \cup UNION {Descendants(sc, sc[s].children[i]) : i \in 1..Len(sc[s].children)}

\* the global scope is the first one, the one __init__ creates
GlobalScope == 1

\* the blocks that are visited inside a statement, one level down
InnerBlocks(node) ==
    IF node.kind = "FunctionDef" THEN {node.body}
    ELSE IF node.kind = "Block"
         THEN {node.statements[i] : i \in {i \in 1..Len(node.statements) :
                                              node.statements[i].kind = "Block"}}
    ELSE {}

\* visiting node in a scope just entered from the current state comes back
\* to that scope
ReturnsToScope(node) ==
    visit(enter_scope(CurrentState, ""), node).cur = enter_scope(CurrentState, "").cur

\* C29: scope entries and exits are balanced: after the visit of a
\* FunctionDef or a Block, also of a FunctionDef rejected as a duplicate and
\* of a body that records errors, the current scope is the one before the
\* visit; the current scope is always reachable from the global scope
\* through children links; when analyze returns it is the global scope.
C29_ScopesBalanced ==
    /\ [](/\ current_scope \in Descendants(scopes, GlobalScope)
          /\ apc = "done" => current_scope = GlobalScope)
    /\ [][(IsVisit /\ ast[aidx].kind \in {"FunctionDef", "Block"})
          => /\ current_scope' = current_scope
             /\ \A b \in InnerBlocks(ast[aidx]) : ReturnsToScope(b)]_vars

\* a function and its duplicate have been analysed: the scopes of the first
\* exist, an error is recorded and the analyzer is back in the global scope
C29_Witness ==
    /\ apc = "done"
    /\ Len(ast) = 2
    /\ ast[1].kind = "FunctionDef"
    /\ ast[2] = ast[1]
    /\ Len(scopes) >= 3
    /\ errors # <<>>
    /\ current_scope = GlobalScope

(***************************************************************************)
(* Comments and the parser                                                 *)
(***************************************************************************)
\* the token list without its comment tokens
RECURSIVE WithoutComments(_)
WithoutComments(toks) ==
    IF toks = <<>> THEN <<>>
    ELSE IF IsCommentToken(Head(toks)) THEN WithoutComments(Tail(toks))
    ELSE <<Head(toks)>> \o WithoutComments(Tail(toks))

\* the statements that are not comment statements, in order
RECURSIVE NonCommentStatements(_)
NonCommentStatements(stmts) ==
    IF stmts = <<>> THEN <<>>
    ELSE IF Head(stmts).kind = "CommentStatement" THEN NonCommentStatements(Tail(stmts))
    ELSE <<Head(stmts)>> \o NonCommentStatements(Tail(stmts))

\* C30: comments are inert for the parser: removing the COMMENT tokens of a
\* token sequence does not change the non-comment statements of the Program
\* parse returns, and a well-formed statement that follows a comment is
\* parsed into its own node with its own fields.
C30_CommentsInert ==
    (ppc = "done" /\ parse(WithoutComments(ptokens)).st = "done")
        => NonCommentStatements(statements)
               = NonCommentStatements(parse(WithoutComments(ptokens)).statements)

\* what the parser does with a comment in front of an assignment or a lone
\* identifier: the comment is the type and the identifier the name of a
\* variable declaration
CommentBecomesDeclarationType ==
    (ppc = "done" /\ Len(ptokens) >= 4 /\ IsCommentToken(ptokens[1])
     /\ ptokens[2].type = IDENTIFIER /\ ptokens[3].type = SEMICOLON)
        => /\ statements # <<>>
           /\ statements[1] = VarDeclaration(ptokens[1].value, ptokens[2].value, NoneNode)
           /\ parse(WithoutComments(ptokens)).statements[1]
                  = ExpressionStatement(Variable(ptokens[2].value))

====
